---- MODULE Spec2Model ----
(***************************************************************************)
(* A model of the fact agent (kylape/fact): the package scan cycle of the  *)
(* VM agent and of the package monitor, and the host-side vsock listener   *)
(* (run_vsock_listener / run_hybrid_mode, VsockServer, SensorRelay) with   *)
(* the guest-side VsockClient.                                             *)
(*                                                                         *)
(* Text is a sequence of one-character strings; a byte is a number in      *)
(* 0..255.                                                                 *)
(***************************************************************************)
EXTENDS Integers, Sequences, FiniteSets, TLC

VARIABLES
    \* ---- package scan (vm_agent.rs, monitors/package_monitor.rs)
    agent,      \* which implementation runs: "VmAgent" or "PackageMonitor"
    cfg,        \* [use_vsock, has_url, skip_http]: the configuration
    pkgPc,      \* position of the collector's driver (run_vm_agent / start + task)
    cycPc,      \* position inside the running scan cycle
    cycKind,    \* "initial" or "tick": which call site started the cycle
    toolOut,    \* what the package tool printed in this cycle
    pkgs,       \* the package records parsed in this cycle
    net,        \* network operations of this cycle, in order
    cycRes,     \* how the last finished cycle ended
    cycles,     \* number of finished cycles
    availNow,   \* answer of the last VsockClient::is_available() probe
    running,    \* PackageMonitor.running
    busOpen,    \* PackageMonitor: the event channel still has its receiver
    busLog      \* PackageMonitor: PackageUpdate events sent, as package counts

VARIABLES
    \* ---- listener (lib.rs, vsock.rs, sensor_relay.rs, vm_watcher.rs)
    lcfg,       \* [mode, enable_vm_agent, enable_vsock_server]
    wire,       \* the link's behaviour: [chunked, frames, long]
    runPc,      \* position of run_vsock_listener / run_hybrid_mode
    startErr,   \* the startup call of run that returned Err: "none","certs","bind"
    sigPc,      \* the signal task: "none", "waiting", "done"
    interrupted,\* the process interrupt has been delivered
    rx,         \* broadcast receivers of the shutdown channel, by user
    bound,      \* the listener socket exists and is bound
    spawned,    \* how often each component has been started
    watcherPc,  \* the VM watcher's loop task
    relayPc,    \* the sensor relay task
    relayClient,\* SensorRelay.client is Some
    relayChan,  \* the relay's message channel (vm_msg_tx -> vm_msg_rx)
    relayLog,   \* what the relay did with each message it took
    upserts,    \* payloads the sensor received in upsert calls
    servePc,    \* VsockServer::serve
    serveChan,  \* serve's message channel (vm_tx -> vm_rx)
    drained,    \* messages serve's logging task received
    conn        \* per guest connection: the link, the client, the handler

VARIABLES
    tkAgent,    \* the collector whose ticker is followed: "VmAgent", "PackageMonitor"
    now,        \* the clock
    tkDue,      \* the ticker's next deadline
    tkPc,       \* the collector: "off","startup","cycle","loop","returned","stopped"
    tkLog       \* the scan cycles so far: [kind, due, start, end]

VARIABLES
    fcfg,       \* FactConfig: mode_arg (the --mode argument, if any) and paths
    runFn,      \* the function `run` dispatched to
    fm,         \* the file collector: FileMonitor.running, path_cfg, paths_map
    registry,   \* MonitorRegistry.monitors, by name
    monLog      \* the start and stop calls on the collectors and their results

VARIABLES
    \* ---- the file collector's drain task (lib.rs, monitors/file_monitor.rs)
    dVia,       \* who spawned the task: "run_file_monitor" or "start"
    ring,       \* records in the ring buffer that were not consumed yet
    emitted,    \* number of records the kernel program has submitted
    dPc,        \* the task: "none","wait","next","send","panicked","ended"
    dCur,       \* the event being sent on the bus
    dLog,       \* what the task did with each record it consumed
    fbusRead,   \* number of events the receiver of the bus has taken
    fbus,       \* events sent on the bus, in order
    fbusOpen,   \* the bus still has its receiver
    dInt        \* the process interrupt has been delivered

VARIABLES
    \* ---- the host identifier (vm_agent.rs, monitors/package_monitor.rs)
    hostMount,  \* the value of FACT_HOST_MOUNT: "" when unset, or "/host"
    hostFs,     \* the hostname files: content of each, or NoFile
    hostPc,     \* the HOSTNAME static: "unread" or "cached"
    hostname    \* the cached identifier

VARIABLES
    \* ---- the VM watcher's table (vm_watcher.rs)
    vms,        \* VmWatcher.vms: the tracked VMs, by key
    vmChan,     \* the VMs sent on vm_tx, in order
    vmRxOpen,   \* the receiver of vm_tx still exists
    vmLast,     \* per key, the type of the last well-formed event for it
    vmCalls     \* number of handle_vm_event calls that have returned

lsnVars == <<lcfg, startErr, wire, runPc, sigPc, interrupted, rx, bound, spawned, watcherPc,
             relayPc, relayClient, relayChan, relayLog, upserts, servePc,
             serveChan, drained, conn>>

pkgVars == <<agent, cfg, pkgPc, cycPc, cycKind, toolOut, pkgs, net, cycRes,
             cycles, availNow, running, busOpen, busLog>>

tickVars == <<tkAgent, now, tkDue, tkPc, tkLog>>

colVars == <<fcfg, runFn, fm, registry, monLog>>

drnVars == <<dVia, ring, emitted, dPc, dCur, dLog, fbusRead, fbus, fbusOpen, dInt>>

hostVars == <<hostMount, hostFs, hostPc, hostname>>

wchVars == <<vms, vmChan, vmRxOpen, vmLast, vmCalls>>

\* what an action of one part of the program leaves alone
outsidePkg == <<lsnVars, tickVars, colVars, drnVars, hostVars, wchVars>>
outsideLsn == <<pkgVars, tickVars, colVars, drnVars, hostVars, wchVars>>
outsideTick == <<pkgVars, lsnVars, colVars, drnVars, hostVars, wchVars>>
outsideDrn == <<pkgVars, lsnVars, tickVars, colVars, hostVars, wchVars>>

vars == <<pkgVars, lsnVars, tickVars, colVars, drnVars, hostVars, wchVars>>

(***************************************************************************)
(* Bounds of the model.                                                    *)
(***************************************************************************)
MaxLines == 2       \* lines of tool output
MaxFields == 5      \* '|'-separated fields on one line
MaxCycles == 3      \* scan cycles of one run
MaxConns == 1       \* guest connections
MaxFrames == 2      \* frames a guest sends on one connection
MaxPayload == 2     \* bytes of one payload

(***************************************************************************)
(* Each specification runs one part of the program; the other part stays   *)
(* in the state given here.                                                *)
(***************************************************************************)
LsnParked ==
    /\ lcfg = [mode |-> "off", enable_vm_agent |-> FALSE, enable_vsock_server |-> FALSE]
    /\ wire = [chunked |-> FALSE, frames |-> 0, long |-> FALSE]
    /\ runPc = "off"
    /\ startErr = "none"
    /\ sigPc = "none"
    /\ interrupted = FALSE
    /\ rx = [r \in {"watcher", "relay", "serve", "run"} |-> "none"]
    /\ bound = FALSE
    /\ spawned = [t \in {"agent", "watcher", "bind", "relay", "serve"} |-> 0]
    /\ watcherPc = "none"
    /\ relayPc = "none"
    /\ relayClient = FALSE
    /\ relayChan = <<>>
    /\ relayLog = <<>>
    /\ upserts = <<>>
    /\ servePc = "none"
    /\ serveChan = <<>>
    /\ drained = 0
    /\ conn = <<>>

PkgParked ==
    /\ agent = "none"
    /\ cfg = [use_vsock |-> FALSE, has_url |-> FALSE, skip_http |-> FALSE]
    /\ pkgPc = "off"
    /\ cycPc = "idle"
    /\ cycKind = "none"
    /\ toolOut = <<>>
    /\ pkgs = <<>>
    /\ net = <<>>
    /\ cycRes = "none"
    /\ cycles = 0
    /\ availNow = TRUE
    /\ running = FALSE
    /\ busOpen = TRUE
    /\ busLog = <<>>

TickParked ==
    /\ tkAgent = "none"
    /\ now = 0
    /\ tkDue = 0
    /\ tkPc = "off"
    /\ tkLog = <<>>

WchParked ==
    /\ vms = <<>>
    /\ vmChan = <<>>
    /\ vmRxOpen = FALSE
    /\ vmLast = <<>>
    /\ vmCalls = 0

HostParked ==
    /\ hostMount = "parked"
    /\ hostFs = <<>>
    /\ hostPc = "off"
    /\ hostname = <<>>

DrnParked ==
    /\ dVia = "none"
    /\ ring = <<>>
    /\ emitted = 0
    /\ dPc = "none"
    /\ dCur = <<>>
    /\ dLog = <<>>
    /\ fbusRead = 0
    /\ fbus = <<>>
    /\ fbusOpen = TRUE
    /\ dInt = FALSE

ColParked ==
    /\ fcfg = [mode_arg |-> "off", paths |-> <<>>]
    /\ runFn = "none"
    /\ fm = [running |-> FALSE, pc |-> "off"]
    /\ registry = <<>>
    /\ monLog = <<>>

(***************************************************************************)
(* Text helpers.                                                           *)
(***************************************************************************)
LF == "\n"
CR == "\r"
PIPE == "|"
DASH == "-"

RECURSIVE Concat(_)
Concat(ss) == IF ss = <<>> THEN <<>> ELSE Head(ss) \o Concat(Tail(ss))

\* str::split('|'): the pieces between the separators; always at least one.
RECURSIVE SplitOn(_, _)
SplitOn(s, sep) ==
    IF \A i \in 1..Len(s) : s[i] # sep
    THEN <<s>>
    ELSE LET k == CHOOSE i \in 1..Len(s) :
                     s[i] = sep /\ \A j \in 1..(i - 1) : s[j] # sep
         IN  <<SubSeq(s, 1, k - 1)>> \o SplitOn(SubSeq(s, k + 1, Len(s)), sep)

\* str::lines(): split after every "\n"; each piece loses its final "\n" and
\* then one final "\r"; a last piece without "\n" is kept as it is, and the
\* empty text has no lines.
StripLineEnd(piece) ==
    IF Len(piece) > 0 /\ piece[Len(piece)] = LF
    THEN LET l == SubSeq(piece, 1, Len(piece) - 1)
         IN  IF Len(l) > 0 /\ l[Len(l)] = CR THEN SubSeq(l, 1, Len(l) - 1) ELSE l
    ELSE piece

RECURSIVE Lines(_)
Lines(s) ==
    IF s = <<>> THEN <<>>
    ELSE IF \A i \in 1..Len(s) : s[i] # LF
         THEN <<s>>
         ELSE LET k == CHOOSE i \in 1..Len(s) :
                          s[i] = LF /\ \A j \in 1..(i - 1) : s[j] # LF
              IN  <<StripLineEnd(SubSeq(s, 1, k))>> \o Lines(SubSeq(s, k + 1, Len(s)))

(***************************************************************************)
(* The package tool's output.  A row is what rpm prints for one package    *)
(* under the query format: its fields joined by '|' and a line end.        *)
(***************************************************************************)
Sym == << <<"a">>, <<"b", DASH>>, <<>>, <<"c">> >>

\* the row of n fields that starts at symbol p
RowFields(n, p) == [i \in 1..n |-> Sym[((i - 1 + p) % 4) + 1]]

Rows == { [fields |-> RowFields(n, p), crlf |-> e] :
            n \in 1..MaxFields, p \in 0..3, e \in BOOLEAN }

RECURSIVE SeqsUpTo(_, _)
SeqsUpTo(S, n) ==
    IF n = 0 THEN {<<>>}
    ELSE LET shorter == SeqsUpTo(S, n - 1)
         IN  shorter \cup { Append(q, x) : q \in {r \in shorter : Len(r) = n - 1}, x \in S }

ToolOutputs == SeqsUpTo(Rows, MaxLines)

RECURSIVE JoinFields(_)
JoinFields(fs) ==
    IF Len(fs) = 0 THEN <<>>
    ELSE IF Len(fs) = 1 THEN fs[1]
    ELSE fs[1] \o <<PIPE>> \o JoinFields(Tail(fs))

RenderRow(r) == JoinFields(r.fields) \o (IF r.crlf THEN <<CR, LF>> ELSE <<LF>>)

Render(rows) == Concat([i \in 1..Len(rows) |-> RenderRow(rows[i])])

(***************************************************************************)
(* VmAgent::run, lines 127-145: the filter_map over stdout.lines().        *)
(***************************************************************************)
\* a variant that forgets the release part of the version
VmAgentLineNoRelease(line) ==
    LET parts == SplitOn(line, PIPE)
    IN  IF Len(parts) >= 4
        THEN << [id      |-> parts[1] \o <<DASH>> \o parts[2],
                 name    |-> parts[1],
                 version |-> parts[2],
                 arch    |-> parts[4]] >>
        ELSE <<>>

VmAgentLine(line) ==
    LET parts == SplitOn(line, PIPE)
    IN  IF Len(parts) >= 4
        THEN LET version == parts[2] \o <<DASH>> \o parts[3]
             IN  << [id      |-> parts[1] \o <<DASH>> \o version,
                     name    |-> parts[1],
                     version |-> version,
                     arch    |-> parts[4]] >>
        ELSE <<>>

VmAgentParse(stdout) ==
    LET ls == Lines(stdout)
    IN  Concat([i \in 1..Len(ls) |-> VmAgentLine(ls[i])])

(***************************************************************************)
(* PackageMonitor::scan_packages, lines 108-112: every line is parsed with *)
(* str::parse::<EmbeddedImageScanComponent>() and the results are          *)
(* collected into one Result, so the first line that fails to parse fails  *)
(* the scan.  The FromStr implementation lives in the client module.       *)
(***************************************************************************)
ComponentFromStr(line) ==
    LET parts == SplitOn(line, PIPE)
    IN  IF Len(parts) = 4
        THEN LET version == parts[2] \o <<DASH>> \o parts[3]
             IN  [ok |-> TRUE,
                  rec |-> [id      |-> parts[1] \o <<DASH>> \o version,
                           name    |-> parts[1],
                           version |-> version,
                           arch    |-> parts[4]]]
        ELSE [ok |-> FALSE, rec |-> <<>>]

\* the Result of scan_packages' collect: [ok, pkgs]
PackageMonitorParse(stdout) ==
    LET ls == Lines(stdout)
        rs == [i \in 1..Len(ls) |-> ComponentFromStr(ls[i])]
    IN  IF \A i \in 1..Len(rs) : rs[i].ok
        THEN [ok |-> TRUE, pkgs |-> [i \in 1..Len(rs) |-> rs[i].rec]]
        ELSE [ok |-> FALSE, pkgs |-> <<>>]

(***************************************************************************)
(* Configuration.                                                          *)
(***************************************************************************)
Configs == [use_vsock : BOOLEAN, has_url : BOOLEAN, skip_http : BOOLEAN]

\* VmAgent::try_from, line 254: url = if !skip_http { cfg.url } else { None };
\* PackageMonitor reads config.url as it is (process_packages, line 211).
UrlInEffect(a, c) ==
    IF a = "VmAgent" THEN c.has_url /\ ~c.skip_http ELSE c.has_url

\* a variant that tries RPC when the transport is selected but not available
SendPathFallback(a, c, avail) ==
    IF c.use_vsock /\ avail THEN "vsock"
    ELSE IF UrlInEffect(a, c) THEN "rpc"
    ELSE "none"

\* VmAgent::run lines 150-154 with send_vsock lines 212-214 (and
\* PackageMonitor::process_packages lines 207-215 with send_vsock 160-162):
\* which path a cycle takes, given the availability probe's answer.
SendPath(a, c, avail) ==
    IF c.use_vsock
    THEN IF avail THEN "vsock" ELSE "vsock_unavailable"
    ELSE IF UrlInEffect(a, c) THEN "rpc"
    ELSE "none"

CycleErrors == {"tool", "utf8", "parse", "send"}

\* tool outputs a scan cycle may see
CycleOutputs == { o \in ToolOutputs : Len(o) <= 1 }

(***************************************************************************)
(* The end of a scan cycle at its call site.                               *)
(*   run_vm_agent lines 305 and 310: `vm_agent.run().await?` returns the   *)
(*   cycle's error from run_vm_agent.                                      *)
(*   PackageMonitor::start lines 285-287 and 296-298: the error is logged. *)
(***************************************************************************)
EndCycle(res) ==
    /\ cycPc' = "idle"
    /\ cycRes' = res
    /\ cycles' = cycles + 1
    /\ pkgPc' = IF agent = "VmAgent" /\ res \in CycleErrors
                THEN "done_err"
                ELSE "loop"

\* run_vm_agent lines 280-305, up to the call of the initial cycle.
VmAgentStartup ==
    /\ agent = "VmAgent"
    /\ pkgPc = "startup"
    /\ \E certsOk \in BOOLEAN, avail \in BOOLEAN, handlerOk \in BOOLEAN :
        /\ availNow' = IF certsOk /\ cfg.use_vsock THEN avail ELSE availNow
        /\ IF ~certsOk \/ (cfg.use_vsock /\ ~avail) \/ ~handlerOk
           THEN /\ pkgPc' = "done_err"
                /\ UNCHANGED <<cycPc, cycKind>>
           ELSE /\ pkgPc' = "in_cycle"
                /\ cycPc' = "scan"
                /\ cycKind' = "initial"
    /\ net' = <<>>
    /\ UNCHANGED outsidePkg
    /\ UNCHANGED <<agent, cfg, toolOut, pkgs, cycRes, cycles, running, busOpen, busLog>>

\* PackageMonitor::start lines 258-285, up to the call of the initial cycle.
PackageMonitorStart ==
    /\ agent = "PackageMonitor"
    /\ pkgPc = "startup"
    /\ IF running
       THEN /\ pkgPc' = "started"
            /\ UNCHANGED <<running, cycPc, cycKind>>
       ELSE /\ running' = TRUE
            /\ pkgPc' = "in_cycle"
            /\ cycPc' = "scan"
            /\ cycKind' = "initial"
    /\ net' = <<>>
    /\ UNCHANGED outsidePkg
    /\ UNCHANGED <<agent, cfg, toolOut, pkgs, cycRes, cycles, availNow, busOpen, busLog>>

\* VmAgent::run lines 121-146 / PackageMonitor::scan_packages lines 101-116:
\* run the tool, decode its output, parse it.
CycleScan ==
    /\ pkgPc = "in_cycle"
    /\ cycPc = "scan"
    /\ \E outcome \in {"spawn_error", "bad_utf8", "output"}, out \in CycleOutputs :
        CASE outcome = "spawn_error" ->
                /\ EndCycle("tool")
                /\ UNCHANGED <<toolOut, pkgs>>
          [] outcome = "bad_utf8" ->
                /\ EndCycle("utf8")
                /\ UNCHANGED <<toolOut, pkgs>>
          [] OTHER ->
                /\ toolOut' = out
                /\ IF agent = "VmAgent"
                   THEN /\ pkgs' = VmAgentParse(Render(out))
                        /\ cycPc' = "send"
                        /\ UNCHANGED <<pkgPc, cycRes, cycles>>
                   ELSE LET r == PackageMonitorParse(Render(out))
                        IN  IF r.ok
                            THEN /\ pkgs' = r.pkgs
                                 /\ cycPc' = "emit"
                                 /\ UNCHANGED <<pkgPc, cycRes, cycles>>
                            ELSE /\ pkgs' = <<>>
                                 /\ EndCycle("parse")
    /\ UNCHANGED outsidePkg
    /\ UNCHANGED <<agent, cfg, cycKind, net, availNow, running, busOpen, busLog>>

\* a variant that sends the event twice
EmitUpdateTwice(log, n) == Append(Append(log, n), n)

\* process_packages line 201: one `event_sender.send(PackageUpdate(vm))`
EmitUpdate(log, n) == Append(log, n)

\* PackageMonitor::process_packages lines 189-204: the PackageUpdate event.
CycleEmit ==
    /\ pkgPc = "in_cycle"
    /\ cycPc = "emit"
    /\ IF busOpen
       THEN /\ busLog' = EmitUpdate(busLog, Len(pkgs))
            /\ cycPc' = "send"
            /\ UNCHANGED <<pkgPc, cycRes, cycles>>
       ELSE /\ EndCycle("bus_closed")
            /\ UNCHANGED busLog
    /\ UNCHANGED outsidePkg
    /\ UNCHANGED <<agent, cfg, cycKind, toolOut, pkgs, net, availNow, running, busOpen>>

\* VmAgent::run lines 148-155 with send_vsock / send_grpc;
\* PackageMonitor::process_packages lines 206-217 with send_vsock / send_grpc.
\* `io` is how far the chosen path gets: the connection fails, the send
\* (send_data or the upsert call) fails, or everything succeeds.
CycleSend ==
    /\ pkgPc = "in_cycle"
    /\ cycPc = "send"
    /\ \E avail \in BOOLEAN, io \in {"connect_fail", "send_fail", "ok"} :
        LET path == SendPath(agent, cfg, avail)
            ops  == CASE path = "vsock" ->
                            IF io = "connect_fail" THEN <<"vsock_connect">>
                            ELSE <<"vsock_connect", "vsock_send">>
                      [] path = "rpc" ->
                            IF io = "connect_fail" THEN <<"rpc_connect">>
                            ELSE <<"rpc_connect", "rpc_upsert">>
                      [] OTHER -> <<>>
            failed == \/ path = "vsock_unavailable"
                      \/ (path \in {"vsock", "rpc"} /\ io # "ok")
        IN  /\ availNow' = IF cfg.use_vsock THEN avail ELSE availNow
            /\ net' = ops
            /\ EndCycle(IF failed /\ agent = "VmAgent" THEN "send"
                        ELSE IF failed THEN "send_logged"
                        ELSE "ok")
    /\ UNCHANGED outsidePkg
    /\ UNCHANGED <<agent, cfg, cycKind, toolOut, pkgs, running, busOpen, busLog>>

\* run_vm_agent lines 307-311 / PackageMonitor::start lines 293-299:
\* a tick of the interval starts another cycle.
Tick ==
    /\ pkgPc = "loop"
    /\ cycles < MaxCycles
    /\ pkgPc' = "in_cycle"
    /\ cycPc' = "scan"
    /\ cycKind' = "tick"
    /\ net' = <<>>
    /\ UNCHANGED outsidePkg
    /\ UNCHANGED <<agent, cfg, toolOut, pkgs, cycRes, cycles, availNow, running, busOpen, busLog>>

\* run_vm_agent lines 312-315 / PackageMonitor::start lines 300-303:
\* the interrupt ends the loop.
PkgShutdown ==
    /\ pkgPc = "loop"
    /\ pkgPc' = IF agent = "VmAgent" THEN "done_ok" ELSE "task_ended"
    /\ UNCHANGED outsidePkg
    /\ UNCHANGED <<agent, cfg, cycPc, cycKind, toolOut, pkgs, net, cycRes, cycles,
                   availNow, running, busOpen, busLog>>

\* the receiver of the event channel goes away
BusClose ==
    /\ agent = "PackageMonitor"
    /\ pkgPc \in {"in_cycle", "loop"}
    /\ busOpen
    /\ busOpen' = FALSE
    /\ UNCHANGED outsidePkg
    /\ UNCHANGED <<agent, cfg, pkgPc, cycPc, cycKind, toolOut, pkgs, net, cycRes,
                   cycles, availNow, running, busLog>>

PkgInit ==
    /\ LsnParked
    /\ TickParked
    /\ DrnParked
    /\ WchParked
    /\ HostParked
    /\ ColParked
    /\ agent \in {"VmAgent", "PackageMonitor"}
    /\ cfg \in Configs
    /\ pkgPc = "startup"
    /\ cycPc = "idle"
    /\ cycKind = "none"
    /\ toolOut = <<>>
    /\ pkgs = <<>>
    /\ net = <<>>
    /\ cycRes = "none"
    /\ cycles = 0
    /\ availNow = TRUE
    /\ running = FALSE
    /\ busOpen = TRUE
    /\ busLog = <<>>

PkgNext ==
    \/ VmAgentStartup
    \/ PackageMonitorStart
    \/ CycleScan
    \/ CycleEmit
    \/ CycleSend
    \/ Tick
    \/ PkgShutdown
    \/ BusClose

PkgSpec == PkgInit /\ [][PkgNext]_vars

(***************************************************************************)
(* The parse alone, over every tool output of the bounds.                  *)
(***************************************************************************)
ParseInit ==
    /\ LsnParked
    /\ TickParked
    /\ DrnParked
    /\ WchParked
    /\ HostParked
    /\ ColParked
    /\ agent = "VmAgent"
    /\ cfg = [use_vsock |-> FALSE, has_url |-> FALSE, skip_http |-> FALSE]
    /\ pkgPc = "parse_input"
    /\ cycPc = "idle"
    /\ cycKind = "none"
    /\ toolOut \in ToolOutputs
    /\ pkgs = <<>>
    /\ net = <<>>
    /\ cycRes = "none"
    /\ cycles = 0
    /\ availNow = TRUE
    /\ running = FALSE
    /\ busOpen = TRUE
    /\ busLog = <<>>

ParseStep ==
    /\ pkgPc = "parse_input"
    /\ pkgs' = VmAgentParse(Render(toolOut))
    /\ pkgPc' = "parsed"
    /\ UNCHANGED outsidePkg
    /\ UNCHANGED <<agent, cfg, cycPc, cycKind, toolOut, net, cycRes, cycles,
                   availNow, running, busOpen, busLog>>

ParseNext == ParseStep

ParseSpec == ParseInit /\ [][ParseNext]_vars

(***************************************************************************)
(* Claims about the package scan cycle.                                    *)
(***************************************************************************)

\* C7: a failure inside a scan cycle (tool cannot be run, output not UTF-8,
\* a line fails to parse, the send fails) never makes the collector's driver
\* return with an error: after a failed cycle the driver is still in its loop
\* (or has ended through the interrupt).
C7_CycleFailureDoesNotTerminate ==
    (cycRes \in CycleErrors \cup {"send_logged"}) => pkgPc # "done_err"

\* the records of the rows that have exactly four fields, in order
RECURSIVE FourFieldRecords(_)
FourFieldRecords(rows) ==
    IF rows = <<>> THEN <<>>
    ELSE LET f == Head(rows).fields
             here == IF Len(f) = 4
                     THEN << [id      |-> f[1] \o <<DASH>> \o f[2] \o <<DASH>> \o f[3],
                              name    |-> f[1],
                              version |-> f[2] \o <<DASH>> \o f[3],
                              arch    |-> f[4]] >>
                     ELSE <<>>
         IN  here \o FourFieldRecords(Tail(rows))

\* C8: a line that does not split on '|' into exactly four fields (fewer or
\* more) produces no package record, and the other lines are still parsed:
\* the parsed records are those of the four-field lines, in order.
C8_OnlyFourFieldLinesYieldRecords ==
    pkgPc = "parsed" => pkgs = FourFieldRecords(toolOut)

AllFourFields(rows) == \A i \in 1..Len(rows) : Len(rows[i].fields) = 4

\* C9: when every line of the tool output has the form N|V|R|A, the parsed
\* report has exactly one package per line, in the order of the lines, with
\* name = N, version = V-R and architecture = A.
C9_OnePackagePerWellFormedLine ==
    (pkgPc = "parsed" /\ AllFourFields(toolOut)) =>
        /\ Len(pkgs) = Len(toolOut)
        /\ \A i \in 1..Len(toolOut) :
              LET f == toolOut[i].fields
              IN  /\ pkgs[i].name = f[1]
                  /\ pkgs[i].version = f[2] \o <<DASH>> \o f[3]
                  /\ pkgs[i].arch = f[4]

\* two different well-formed lines, one ended by CR LF, have been parsed
C9_Witness ==
    /\ pkgPc = "parsed"
    /\ Len(toolOut) = 2
    /\ AllFourFields(toolOut)
    /\ toolOut[1].fields # toolOut[2].fields
    /\ toolOut[1].crlf
    /\ Len(pkgs) = 2

\* a cycle that reached its send step has ended
SendDone == cycPc = "idle" /\ cycRes \in {"ok", "send", "send_logged"}

UsedVsock == \E i \in 1..Len(net) : net[i] \in {"vsock_connect", "vsock_send"}
UsedRpc == \E i \in 1..Len(net) : net[i] \in {"rpc_connect", "rpc_upsert"}

\* C10 as stated: the transport is used if it was selected and is available;
\* otherwise RPC is used if a URL is in effect, also when the transport was
\* selected but is not available; otherwise there is no network I/O.
C10_PathWithRpcFallback ==
    SendDone =>
        IF cfg.use_vsock /\ availNow THEN UsedVsock /\ ~UsedRpc
        ELSE IF UrlInEffect(agent, cfg) THEN UsedRpc /\ ~UsedVsock
        ELSE net = <<>>

\* C10 amended: the transport is the path whenever it was selected; when it
\* is then not available the send fails and nothing is transmitted (RPC is
\* not tried).  Otherwise RPC is used if a URL is in effect, otherwise there
\* is no network I/O.  The two paths are never both used in one cycle.
C10_PathWithoutFallback ==
    SendDone =>
        /\ ~(UsedVsock /\ UsedRpc)
        /\ IF cfg.use_vsock
           THEN /\ ~UsedRpc
                /\ availNow => UsedVsock
                /\ ~availNow => (net = <<>> /\ cycRes # "ok")
           ELSE IF UrlInEffect(agent, cfg) THEN UsedRpc /\ ~UsedVsock
           ELSE net = <<>>

\* a cycle with the transport selected but not available and a URL in effect
C10_Witness ==
    /\ SendDone
    /\ cfg.use_vsock
    /\ ~availNow
    /\ UrlInEffect(agent, cfg)
    /\ net = <<>>

(***************************************************************************)
(* The host-guest link and its framing (vsock.rs).                         *)
(***************************************************************************)
HeaderLen == 4      \* the length header and the acknowledgment are 4 bytes
BufInit == 4096     \* handle_client's initial read buffer
ChanCap == 100      \* capacity of the message channels

Conns == 1..MaxConns
Bytes == {10, 255}
\* the payloads a guest sends: every length up to MaxPayload, the first
\* byte either value (so that a payload is not its own reverse)
Payloads ==
    {<<>>} \cup { [i \in 1..n |-> IF i = 1 THEN b ELSE 10] :
                    n \in 1..MaxPayload, b \in Bytes }

\* a payload that does not fit the handler's initial read buffer
LongPayload == [i \in 1..(BufInit + 1) |-> 10]

\* the payloads of the guest of this run
GuestPayloads ==
    IF wire.long THEN { p \in Payloads : Len(p) = 0 \/ p = <<255>> } \cup {LongPayload}
    ELSE Payloads

Min(a, b) == IF a < b THEN a ELSE b
Max(a, b) == IF a > b THEN a ELSE b
Take(s, n) == SubSeq(s, 1, n)
Drop(s, n) == SubSeq(s, n + 1, Len(s))

\* a variant that writes the most significant byte first
ToLeBytesBigEndian(n) ==
    << (n \div 16777216) % 256, (n \div 65536) % 256, (n \div 256) % 256, n % 256 >>

\* u32::to_le_bytes (send_data line 55, handle_client line 270); n < 2^31 here
ToLeBytes(n) ==
    << n % 256, (n \div 256) % 256, (n \div 65536) % 256, (n \div 16777216) % 256 >>

\* u32::from_le_bytes (send_data line 70, handle_client line 255)
FromLeBytes(h) == h[1] + 256 * h[2] + 65536 * h[3] + 16777216 * h[4]

\* sizes one read or write system call may transfer when n bytes are possible
ChunkSizes(n) == IF wire.chunked THEN 1..n ELSE {n}

\* handle_client line 270: the acknowledgment's status
AckStatus == 0

\* a variant in which the handler starts over after a failed system call
HandlerAfterErrorRetry == "hdr"

\* handle_client lines 245-252, 263-266, 271-274: every failed read or write
\* breaks out of the loop
HandlerAfterError == "closed"

\* a variant of the slice that reaches to the last byte ever written
BufSliceWritten(b, n) ==
    [i \in 1..Max(n, Len(b)) |-> IF i <= Len(b) THEN b[i] ELSE 0]

\* a variant of the handler that forwards without an acknowledgment
AfterBodySkipAck == "fwd"

\* handle_client lines 261-271: after the body comes the acknowledgment
AfterBody == "ack"

\* buffer[..n], the buffer being the bytes written so far followed by zeros
BufSlice(b, n) == [i \in 1..n |-> IF i <= Len(b) THEN b[i] ELSE 0]

ConnInit ==
    [ link     |-> "idle",   \* "idle", "backlog", "accepted", "aborted"
      gClosed  |-> FALSE,    \* the guest has closed its end
      fault    |-> FALSE,    \* the link is broken: system calls on it fail
      c2s      |-> <<>>,     \* bytes in flight, guest to host
      s2c      |-> <<>>,     \* bytes in flight, host to guest
      \* VsockClient
      cPc      |-> "none",   \* "none","ready","writing","ack","failed","closed"
      cHdr     |-> <<>>,     \* header bytes still to write
      cData    |-> <<>>,     \* payload bytes still to write
      cAck     |-> <<>>,     \* acknowledgment bytes read so far
      cCalls   |-> <<>>,     \* the payloads of the send_data calls, in order
      cOk      |-> 0,        \* send_data calls that returned Ok
      \* handle_client
      hPc      |-> "none",   \* "none","hdr","body","ack","fwd","closed"
      hdr      |-> <<>>,     \* header bytes read so far
      msgLen   |-> 0,
      got      |-> 0,        \* body bytes read so far
      buf      |-> <<>>,     \* the written part of the buffer
      bufCap   |-> 0,        \* buffer.len()
      ackOff   |-> 0,        \* acknowledgment bytes written so far
      hIo      |-> "none",   \* result of the handler's last system call
      ackLog   |-> <<>>,     \* every acknowledgment byte the handler wrote
      fwdLog   |-> <<>> ]    \* data of every message the handler sent on vm_tx

\* ---- the guest: VsockClient

\* connect_to_port, lines 30-48
GuestConnect(c) ==
    /\ bound
    /\ conn[c].link = "idle"
    /\ conn' = [conn EXCEPT ![c].link = "backlog", ![c].cPc = "ready"]
    /\ UNCHANGED <<lcfg, startErr, wire, runPc, sigPc, interrupted, rx, bound, spawned,
                   watcherPc, relayPc, relayClient, relayChan, relayLog, upserts,
                   servePc, serveChan, drained>>
    /\ UNCHANGED outsideLsn

\* send_data, lines 51-56: the call and its header
GuestSend(c) ==
    /\ conn[c].cPc = "ready"
    /\ Len(conn[c].cCalls) < wire.frames
    /\ \E b \in GuestPayloads :
          conn' = [conn EXCEPT ![c].cPc = "writing",
                               ![c].cHdr = ToLeBytes(Len(b)),
                               ![c].cData = b,
                               ![c].cAck = <<>>,
                               ![c].cCalls = Append(@, b)]
    /\ UNCHANGED <<lcfg, startErr, wire, runPc, sigPc, interrupted, rx, bound, spawned,
                   watcherPc, relayPc, relayClient, relayChan, relayLog, upserts,
                   servePc, serveChan, drained>>
    /\ UNCHANGED outsideLsn

\* write_all, lines 80-93: one write of the header (line 58) or of the data
\* (line 62); after the last byte send_data goes on to read the acknowledgment
GuestWrite(c) ==
    /\ conn[c].cPc = "writing"
    /\ ~conn[c].fault
    /\ LET k == conn[c]
           left == IF k.cHdr # <<>> THEN k.cHdr ELSE k.cData
       IN  \E n \in ChunkSizes(Len(left)) :
              LET hdr2  == IF k.cHdr # <<>> THEN Drop(k.cHdr, n) ELSE <<>>
                  data2 == IF k.cHdr # <<>> THEN k.cData ELSE Drop(k.cData, n)
              IN  conn' = [conn EXCEPT
                             ![c].c2s = @ \o Take(left, n),
                             ![c].cHdr = hdr2,
                             ![c].cData = data2,
                             ![c].cPc = IF hdr2 = <<>> /\ data2 = <<>>
                                        THEN "ack" ELSE "writing"]
    /\ UNCHANGED <<lcfg, startErr, wire, runPc, sigPc, interrupted, rx, bound, spawned,
                   watcherPc, relayPc, relayClient, relayChan, relayLog, upserts,
                   servePc, serveChan, drained>>
    /\ UNCHANGED outsideLsn

\* read_exact, lines 96-112, and send_data lines 66-76: one read of the
\* acknowledgment; a read of 0 bytes (the host closed) is an error
GuestReadAck(c) ==
    /\ conn[c].cPc = "ack"
    /\ ~conn[c].fault
    /\ LET k == conn[c]
       IN  IF k.s2c # <<>>
           THEN \E n \in ChunkSizes(Min(Len(k.s2c), HeaderLen - Len(k.cAck))) :
                   LET ack2 == k.cAck \o Take(k.s2c, n)
                       full == Len(ack2) = HeaderLen
                   IN  conn' = [conn EXCEPT
                                  ![c].s2c = Drop(@, n),
                                  ![c].cAck = ack2,
                                  ![c].cPc = IF ~full THEN "ack"
                                             ELSE IF FromLeBytes(ack2) = 0 THEN "ready"
                                             ELSE "failed",
                                  ![c].cOk = IF full /\ FromLeBytes(ack2) = 0
                                             THEN @ + 1 ELSE @]
           ELSE /\ k.hPc = "closed"
                /\ conn' = [conn EXCEPT ![c].cPc = "failed"]
    /\ UNCHANGED <<lcfg, startErr, wire, runPc, sigPc, interrupted, rx, bound, spawned,
                   watcherPc, relayPc, relayClient, relayChan, relayLog, upserts,
                   servePc, serveChan, drained>>
    /\ UNCHANGED outsideLsn

\* write_all / read_exact: a system call on a broken link fails
GuestIoError(c) ==
    /\ conn[c].cPc \in {"writing", "ack"}
    /\ conn[c].fault
    /\ conn' = [conn EXCEPT ![c].cPc = "failed"]
    /\ UNCHANGED <<lcfg, startErr, wire, runPc, sigPc, interrupted, rx, bound, spawned,
                   watcherPc, relayPc, relayClient, relayChan, relayLog, upserts,
                   servePc, serveChan, drained>>
    /\ UNCHANGED outsideLsn

\* the client is dropped (lines 132-136): its descriptor is closed
GuestClose(c) ==
    /\ conn[c].cPc \in {"ready", "failed"}
    /\ conn' = [conn EXCEPT ![c].cPc = "closed", ![c].gClosed = TRUE]
    /\ UNCHANGED <<lcfg, startErr, wire, runPc, sigPc, interrupted, rx, bound, spawned,
                   watcherPc, relayPc, relayClient, relayChan, relayLog, upserts,
                   servePc, serveChan, drained>>
    /\ UNCHANGED outsideLsn

\* the link breaks (a reset): from now on system calls on it fail
LinkFault(c) ==
    /\ conn[c].link \in {"backlog", "accepted"}
    /\ ~conn[c].fault
    /\ conn[c].cPc # "closed"
    /\ conn' = [conn EXCEPT ![c].fault = TRUE]
    /\ UNCHANGED <<lcfg, startErr, wire, runPc, sigPc, interrupted, rx, bound, spawned,
                   watcherPc, relayPc, relayClient, relayChan, relayLog, upserts,
                   servePc, serveChan, drained>>
    /\ UNCHANGED outsideLsn

\* ---- the handler: VsockServer::handle_client, lines 233-290

\* read_exact_fd, lines 293-313: one read of the header (line 243) or of the
\* data (line 261).  A complete header gives msg_len and grows the buffer
\* (lines 255-258); a read of 0 bytes is UnexpectedEof and ends the handler.
\* The read of an empty body returns at once, without a system call.
HandlerRead(c) ==
    /\ conn[c].hPc \in {"hdr", "body"}
    /\ ~conn[c].fault \/ (conn[c].hPc = "body" /\ conn[c].msgLen = 0)
    /\ LET k == conn[c]
           need == IF k.hPc = "hdr" THEN HeaderLen - Len(k.hdr) ELSE k.msgLen - k.got
       IN  IF need = 0
           THEN conn' = [conn EXCEPT ![c].hPc = AfterBody]
           ELSE IF k.c2s # <<>>
           THEN \E n \in ChunkSizes(Min(need, Len(k.c2s))) :
                   LET chunk == Take(k.c2s, n)
                   IN  IF k.hPc = "hdr"
                       THEN LET hdr2 == k.hdr \o chunk
                                full == Len(hdr2) = HeaderLen
                            IN  conn' = [conn EXCEPT
                                   ![c].c2s = Drop(@, n),
                                   ![c].hIo = "ok",
                                   ![c].hdr = hdr2,
                                   ![c].msgLen = IF full THEN FromLeBytes(hdr2) ELSE @,
                                   ![c].bufCap = IF full THEN Max(@, FromLeBytes(hdr2)) ELSE @,
                                   ![c].got = IF full THEN 0 ELSE @,
                                   ![c].hPc = IF full THEN "body" ELSE "hdr"]
                       ELSE conn' = [conn EXCEPT
                                   ![c].c2s = Drop(@, n),
                                   ![c].hIo = "ok",
                                   ![c].buf = [i \in 1..Max(Len(k.buf), k.got + n) |->
                                                 IF i > k.got /\ i <= k.got + n
                                                 THEN chunk[i - k.got] ELSE k.buf[i]],
                                   ![c].got = @ + n,
                                   ![c].hPc = IF k.got + n = k.msgLen THEN AfterBody ELSE "body"]
           ELSE /\ k.gClosed
                /\ conn' = [conn EXCEPT ![c].hIo = "eof", ![c].hPc = HandlerAfterError]
    /\ UNCHANGED <<lcfg, startErr, wire, runPc, sigPc, interrupted, rx, bound, spawned,
                   watcherPc, relayPc, relayClient, relayChan, relayLog, upserts,
                   servePc, serveChan, drained>>
    /\ UNCHANGED outsideLsn

\* a read or a write on a broken link returns an error
HandlerIoError(c) ==
    /\ \/ conn[c].hPc \in {"hdr", "ack"}
       \/ conn[c].hPc = "body" /\ conn[c].got < conn[c].msgLen
    /\ conn[c].fault
    /\ conn' = [conn EXCEPT ![c].hIo = "err", ![c].hPc = HandlerAfterError]
    /\ UNCHANGED <<lcfg, startErr, wire, runPc, sigPc, interrupted, rx, bound, spawned,
                   watcherPc, relayPc, relayClient, relayChan, relayLog, upserts,
                   servePc, serveChan, drained>>
    /\ UNCHANGED outsideLsn

\* write_all_fd, lines 316-333, from line 271: one write of the
\* acknowledgment.  Once the guest has closed, the write may fail.
HandlerWriteAck(c) ==
    /\ conn[c].hPc = "ack"
    /\ ~conn[c].fault
    /\ \/ \E n \in ChunkSizes(HeaderLen - conn[c].ackOff) :
             LET k == conn[c]
                 bytes == SubSeq(ToLeBytes(AckStatus), k.ackOff + 1, k.ackOff + n)
                 full == k.ackOff + n = HeaderLen
             IN  conn' = [conn EXCEPT
                            ![c].s2c = @ \o bytes,
                            ![c].ackLog = @ \o bytes,
                            ![c].hIo = "ok",
                            ![c].ackOff = IF full THEN 0 ELSE k.ackOff + n,
                            ![c].hPc = IF full THEN "fwd" ELSE "ack"]
       \/ /\ conn[c].gClosed
          /\ conn' = [conn EXCEPT ![c].hIo = "err", ![c].hPc = HandlerAfterError]
    /\ UNCHANGED <<lcfg, startErr, wire, runPc, sigPc, interrupted, rx, bound, spawned,
                   watcherPc, relayPc, relayClient, relayChan, relayLog, upserts,
                   servePc, serveChan, drained>>
    /\ UNCHANGED outsideLsn

\* lines 276-285: the message is built from buffer[..msg_len] and sent on
\* vm_tx; the send waits while the channel is full.  (The receiver lives in
\* serve's logging task, which never ends, so the send cannot fail.)
HandlerForward(c) ==
    /\ conn[c].hPc = "fwd"
    /\ Len(serveChan) < ChanCap
    /\ LET data == BufSlice(conn[c].buf, conn[c].msgLen)
       IN  /\ serveChan' = Append(serveChan, [vm |-> c, data |-> data])
           /\ conn' = [conn EXCEPT ![c].fwdLog = Append(@, data),
                                   ![c].hdr = <<>>,
                                   ![c].hPc = "hdr"]
    /\ UNCHANGED <<lcfg, startErr, wire, runPc, sigPc, interrupted, rx, bound, spawned,
                   watcherPc, relayPc, relayClient, relayChan, relayLog, upserts,
                   servePc, drained>>
    /\ UNCHANGED outsideLsn

\* ---- VsockServer::serve, lines 178-204, and accept_connection, 207-230

\* lines 179-188: the channel and the task that receives from it
ServeStart ==
    /\ servePc = "spawned"
    /\ servePc' = "select"
    /\ rx' = [rx EXCEPT !["serve"] = IF @ = "none" THEN "empty" ELSE @]
    /\ UNCHANGED <<lcfg, startErr, wire, runPc, sigPc, interrupted, bound, spawned, watcherPc,
                   relayPc, relayClient, relayChan, relayLog, upserts, serveChan,
                   drained, conn>>
    /\ UNCHANGED outsideLsn

\* lines 183-188: `while let Some(msg) = vm_rx.recv().await { debug!(...) }`
DrainRecv ==
    /\ servePc \in {"select", "in_accept", "stopped"}
    /\ serveChan # <<>>
    /\ serveChan' = Tail(serveChan)
    /\ drained' = drained + 1
    /\ UNCHANGED <<lcfg, startErr, wire, runPc, sigPc, interrupted, rx, bound, spawned,
                   watcherPc, relayPc, relayClient, relayChan, relayLog, upserts,
                   servePc, conn>>
    /\ UNCHANGED outsideLsn

\* lines 192-196: the select takes the shutdown branch; serve returns and
\* the server, with its listening socket, is dropped
ServeShutdown ==
    /\ servePc = "select"
    /\ rx["serve"] = "msg"
    /\ servePc' = "stopped"
    /\ rx' = [rx EXCEPT !["serve"] = "taken"]
    /\ bound' = FALSE
    /\ UNCHANGED <<lcfg, startErr, wire, runPc, sigPc, interrupted, spawned, watcherPc,
                   relayPc, relayClient, relayChan, relayLog, upserts, serveChan,
                   drained, conn>>
    /\ UNCHANGED outsideLsn

\* lines 197 and 209: the select polls accept_connection, which calls the
\* blocking accept(2) on the listening socket
ServeEnterAccept ==
    /\ servePc = "select"
    /\ servePc' = "in_accept"
    /\ UNCHANGED <<lcfg, startErr, wire, runPc, sigPc, interrupted, rx, bound, spawned,
                   watcherPc, relayPc, relayClient, relayChan, relayLog, upserts,
                   serveChan, drained, conn>>
    /\ UNCHANGED outsideLsn

\* lines 209-229: accept returns a connection and its handler is spawned
ServeAcceptReturn(c) ==
    /\ servePc = "in_accept"
    /\ conn[c].link = "backlog"
    /\ servePc' = "select"
    /\ conn' = [conn EXCEPT ![c].link = "accepted",
                            ![c].hPc = "hdr",
                            ![c].bufCap = BufInit]
    /\ UNCHANGED <<lcfg, startErr, wire, runPc, sigPc, interrupted, rx, bound, spawned,
                   watcherPc, relayPc, relayClient, relayChan, relayLog, upserts,
                   serveChan, drained>>
    /\ UNCHANGED outsideLsn

\* lines 211-214: accept fails for a connection that broke in the backlog
ServeAcceptError(c) ==
    /\ servePc = "in_accept"
    /\ conn[c].link = "backlog"
    /\ conn[c].fault
    /\ servePc' = "select"
    /\ conn' = [conn EXCEPT ![c].link = "aborted"]
    /\ UNCHANGED <<lcfg, startErr, wire, runPc, sigPc, interrupted, rx, bound, spawned,
                   watcherPc, relayPc, relayClient, relayChan, relayLog, upserts,
                   serveChan, drained>>
    /\ UNCHANGED outsideLsn

\* ---- SensorRelay, sensor_relay.rs

\* forward_vm_message lines 134-135: whether the payload decodes as an
\* IndexReport.  The byte 255 stands for bytes that are no protobuf message.
Decodes(data) == \A i \in 1..Len(data) : data[i] # 255

\* a variant of hybrid mode that keeps the sender as run_vsock_listener does
VmMsgTxScopeOfRun(c) == "function"

\* the scope of vm_msg_tx, the only sender of the relay's channel: the body
\* of run_vsock_listener (lib.rs line 154), but in run_hybrid_mode the `if`
\* block that starts the listener stack (lines 236 and 282, blocks 220-250
\* and 253-296)
VmMsgTxScope(c) == IF c.mode = "hybrid" THEN "block" ELSE "function"

\* the sender is dropped at the end of its scope: when the run function
\* returns, or when the block has spawned its tasks
VmMsgTxDropped ==
    \/ runPc \in {"returned_ok", "returned_err"}
    \/ VmMsgTxScope(lcfg) = "block" /\ runPc \in {"subscribe", "wait"}

\* lib.rs lines 156-157 (238-239, 284-285): the task's first poll; in the
\* default branch of hybrid mode the receiver is subscribed here
RelayStart ==
    /\ relayPc = "spawned"
    /\ relayPc' = "connecting"
    /\ rx' = [rx EXCEPT !["relay"] = IF @ = "none" THEN "empty" ELSE @]
    /\ UNCHANGED <<lcfg, startErr, wire, runPc, sigPc, interrupted, bound, spawned, watcherPc,
                   relayClient, relayChan, relayLog, upserts, servePc, serveChan,
                   drained, conn>>
    /\ UNCHANGED outsideLsn

\* start line 66 with connect lines 99-124: a failed first connection makes
\* start return the error
RelayConnect ==
    /\ relayPc = "connecting"
    /\ \E ok \in BOOLEAN :
          /\ relayClient' = ok
          /\ relayPc' = IF ok THEN "loop" ELSE "failed"
    /\ UNCHANGED <<lcfg, startErr, wire, runPc, sigPc, interrupted, rx, bound, spawned,
                   watcherPc, relayChan, relayLog, upserts, servePc, serveChan,
                   drained, conn>>
    /\ UNCHANGED outsideLsn

\* start lines 71-74: the shutdown branch of the select
RelayShutdown ==
    /\ relayPc = "loop"
    /\ rx["relay"] = "msg"
    /\ relayPc' = "stopped"
    /\ rx' = [rx EXCEPT !["relay"] = "taken"]
    /\ UNCHANGED <<lcfg, startErr, wire, runPc, sigPc, interrupted, bound, spawned, watcherPc,
                   relayClient, relayChan, relayLog, upserts, servePc, serveChan,
                   drained, conn>>
    /\ UNCHANGED outsideLsn

\* a variant of the loop that never reconnects
ReconnectAfterNever(res, reconnectOk) == "none"

\* start lines 78-84: after an error of forward_vm_message, connect is
\* called once; its own error is logged and the loop goes on
ReconnectAfter(res, reconnectOk) ==
    IF res = "upserted" THEN "none"
    ELSE IF reconnectOk THEN "ok" ELSE "failed"

\* start lines 75-91 with forward_vm_message lines 127-148: the message
\* branch of the select.  A message is decoded and upserted; after any
\* error one reconnect is tried.  None (the channel is closed) ends the loop.
RelayRecv ==
    /\ relayPc = "loop"
    /\ IF relayChan # <<>>
       THEN \E rpcOk \in BOOLEAN, reconnectOk \in BOOLEAN :
               LET data == Head(relayChan).data
                   res == IF ~relayClient THEN "not_connected"
                          ELSE IF ~Decodes(data) THEN "decode_failed"
                          ELSE IF rpcOk THEN "upserted"
                          ELSE "upsert_failed"
               IN  /\ relayChan' = Tail(relayChan)
                   /\ upserts' = IF res = "upserted" THEN Append(upserts, data) ELSE upserts
                   /\ relayClient' = IF ReconnectAfter(res, reconnectOk) = "ok" THEN TRUE
                                     ELSE relayClient
                   /\ relayLog' = Append(relayLog,
                          [data |-> data, res |-> res,
                           reconnect |-> ReconnectAfter(res, reconnectOk)])
                   /\ UNCHANGED relayPc
       ELSE /\ VmMsgTxDropped
            /\ relayPc' = "stopped"
            /\ UNCHANGED <<relayChan, upserts, relayClient, relayLog>>
    /\ UNCHANGED <<lcfg, startErr, wire, runPc, sigPc, interrupted, rx, bound, spawned,
                   watcherPc, servePc, serveChan, drained, conn>>
    /\ UNCHANGED outsideLsn

\* ---- VmWatcher::start, vm_watcher.rs lines 36-61

\* lines 41-58: start spawns the loop task and returns
WatcherStart ==
    /\ watcherPc = "spawned"
    /\ watcherPc' = "loop"
    /\ UNCHANGED <<lcfg, startErr, wire, runPc, sigPc, interrupted, rx, bound, spawned,
                   relayPc, relayClient, relayChan, relayLog, upserts, servePc,
                   serveChan, drained, conn>>
    /\ UNCHANGED outsideLsn

\* lines 47-50: the shutdown branch of the loop's select
WatcherShutdown ==
    /\ watcherPc = "loop"
    /\ rx["watcher"] = "msg"
    /\ watcherPc' = "stopped"
    /\ rx' = [rx EXCEPT !["watcher"] = "taken"]
    /\ UNCHANGED <<lcfg, startErr, wire, runPc, sigPc, interrupted, bound, spawned, relayPc,
                   relayClient, relayChan, relayLog, upserts, servePc, serveChan,
                   drained, conn>>
    /\ UNCHANGED outsideLsn

\* ---- run_vsock_listener (lib.rs 110-174) and run_hybrid_mode (176-303)

LCfgs ==
    { [mode |-> "listener", enable_vm_agent |-> FALSE, enable_vsock_server |-> FALSE] }
    \cup [mode : {"hybrid"}, enable_vm_agent : BOOLEAN, enable_vsock_server : BOOLEAN]

\* a variant of hybrid mode that enters its last block whatever the flags
DefaultBranchAlways(c) == c.mode = "hybrid"

\* hybrid mode, line 253: neither component was selected
DefaultBranch(c) ==
    c.mode = "hybrid" /\ ~c.enable_vm_agent /\ ~c.enable_vsock_server

\* the listener stack is started (lines 142-167, 220-250, 264-295)
StartsServer(c) ==
    c.mode = "listener" \/ c.enable_vsock_server \/ DefaultBranch(c)

\* the VM agent is started (lines 209-217, 256-262)
StartsAgent(c) ==
    c.mode = "hybrid" /\ (c.enable_vm_agent \/ DefaultBranch(c))

\* lines 119-122 (185-189) subscribe the receivers of the spawned tasks;
\* the receiver of the final wait is not among them (lines 170, 299)
RunRxAtSetup == "none"

\* the process interrupt arrives (the signal task is waiting for it)
Interrupt ==
    /\ sigPc = "waiting"
    /\ ~interrupted
    /\ interrupted' = TRUE
    /\ UNCHANGED <<lcfg, startErr, wire, runPc, sigPc, rx, bound, spawned, watcherPc, relayPc,
                   relayClient, relayChan, relayLog, upserts, servePc, serveChan,
                   drained, conn>>
    /\ UNCHANGED outsideLsn

\* lines 127-131 (194-198): the signal task broadcasts the shutdown; every
\* receiver that exists at this moment gets the message
SigSend ==
    /\ sigPc = "waiting"
    /\ interrupted
    /\ sigPc' = "done"
    /\ rx' = [r \in DOMAIN rx |-> IF rx[r] = "empty" THEN "msg" ELSE rx[r]]
    /\ UNCHANGED <<lcfg, startErr, wire, runPc, interrupted, bound, spawned, watcherPc,
                   relayPc, relayClient, relayChan, relayLog, upserts, servePc,
                   serveChan, drained, conn>>
    /\ UNCHANGED outsideLsn

\* lines 119-132 (185-199): the channel, the eager receivers, the signal task
RunSetup ==
    /\ runPc = "start"
    /\ runPc' = "certs"
    /\ sigPc' = "waiting"
    /\ rx' = [r \in DOMAIN rx |->
                IF r = "run" THEN RunRxAtSetup
                ELSE IF r = "watcher" \/ ~DefaultBranch(lcfg) THEN "empty"
                ELSE "none"]
    /\ UNCHANGED <<lcfg, startErr, wire, interrupted, bound, spawned, watcherPc, relayPc,
                   relayClient, relayChan, relayLog, upserts, servePc, serveChan,
                   drained, conn>>
    /\ UNCHANGED outsideLsn

\* a variant of run that logs a startup error and goes on to its final wait
AfterStartupErrorContinue == "subscribe"

\* lines 136, 150 (203, 232, 273, 277): the `?` after Certs::try_from and
\* VsockServer::bind returns the error from run
AfterStartupError == "returned_err"

\* lines 135-139 (202-206): a certificate directory that cannot be loaded
\* makes run return the error
RunCerts ==
    /\ runPc = "certs"
    /\ \E ok \in BOOLEAN :
          /\ startErr' = IF ok THEN startErr ELSE "certs"
          /\ runPc' = IF ok THEN "spawn" ELSE AfterStartupError
    /\ UNCHANGED <<lcfg, wire, sigPc, interrupted, rx, bound, spawned, watcherPc,
                   relayPc, relayClient, relayChan, relayLog, upserts, servePc,
                   serveChan, drained, conn>>
    /\ UNCHANGED outsideLsn

\* lines 142-167 (209-296): the components are spawned.  A failed bind, or
\* in the default branch a failed second certificate load (lines 276-280),
\* returns the error after the VM agent and the watcher were spawned.
RunSpawn ==
    /\ runPc = "spawn"
    /\ \E bindOk \in BOOLEAN, certsOk \in BOOLEAN :
        LET srv == StartsServer(lcfg)
            ok == ~srv \/ (bindOk /\ (certsOk \/ ~DefaultBranch(lcfg)))
            \* how often the blocks that are entered start a component: the
            \* agent in lines 209-217 and 256-262, the listener stack in
            \* lines 142-167, 220-250 and 264-295
            agents == (IF lcfg.mode = "hybrid" /\ lcfg.enable_vm_agent THEN 1 ELSE 0)
                      + (IF DefaultBranch(lcfg) THEN 1 ELSE 0)
            stacks == (IF lcfg.mode = "listener" \/ lcfg.enable_vsock_server THEN 1 ELSE 0)
                      + (IF DefaultBranch(lcfg) THEN 1 ELSE 0)
        IN  /\ spawned' = [t \in DOMAIN spawned |->
                  spawned[t] +
                  (CASE t = "agent" -> agents
                     [] t \in {"watcher", "bind"} -> stacks
                     [] OTHER -> (IF ok THEN stacks ELSE 0))]
            /\ watcherPc' = IF srv THEN "spawned" ELSE watcherPc
            /\ relayPc' = IF srv /\ ok THEN "spawned" ELSE relayPc
            /\ servePc' = IF srv /\ ok THEN "spawned" ELSE servePc
            /\ bound' = (srv /\ ok)
            /\ startErr' = IF ok THEN startErr
                           ELSE IF ~bindOk THEN "bind" ELSE "certs"
            /\ runPc' = IF ok THEN "subscribe" ELSE AfterStartupError
    /\ UNCHANGED <<lcfg, wire, sigPc, interrupted, rx, relayClient, relayChan,
                   relayLog, upserts, serveChan, drained, conn>>
    /\ UNCHANGED outsideLsn

\* lines 170, 299: `shutdown_tx.subscribe()` of the final wait
RunSubscribe ==
    /\ runPc = "subscribe"
    /\ runPc' = "wait"
    /\ rx' = [rx EXCEPT !["run"] = IF @ = "none" THEN "empty" ELSE @]
    /\ UNCHANGED <<lcfg, startErr, wire, sigPc, interrupted, bound, spawned, watcherPc,
                   relayPc, relayClient, relayChan, relayLog, upserts, servePc,
                   serveChan, drained, conn>>
    /\ UNCHANGED outsideLsn

\* lines 170-173, 299-302: `.recv().await` returns and run returns Ok
RunReturn ==
    /\ runPc = "wait"
    /\ rx["run"] = "msg"
    /\ runPc' = "returned_ok"
    /\ rx' = [rx EXCEPT !["run"] = "taken"]
    /\ UNCHANGED <<lcfg, startErr, wire, sigPc, interrupted, bound, spawned, watcherPc,
                   relayPc, relayClient, relayChan, relayLog, upserts, servePc,
                   serveChan, drained, conn>>
    /\ UNCHANGED outsideLsn

(***************************************************************************)
(* The listener from the start of run, with guests that send whole frames. *)
(***************************************************************************)
ListenerInit ==
    /\ PkgParked
    /\ TickParked
    /\ DrnParked
    /\ WchParked
    /\ HostParked
    /\ ColParked
    /\ lcfg \in LCfgs
    /\ wire = [chunked |-> FALSE, frames |-> 1, long |-> FALSE]
    /\ runPc = "start"
    /\ startErr = "none"
    /\ sigPc = "none"
    /\ interrupted = FALSE
    /\ rx = [r \in {"watcher", "relay", "serve", "run"} |-> "none"]
    /\ bound = FALSE
    /\ spawned = [t \in {"agent", "watcher", "bind", "relay", "serve"} |-> 0]
    /\ watcherPc = "none"
    /\ relayPc = "none"
    /\ relayClient = FALSE
    /\ relayChan = <<>>
    /\ relayLog = <<>>
    /\ upserts = <<>>
    /\ servePc = "none"
    /\ serveChan = <<>>
    /\ drained = 0
    /\ conn = [c \in Conns |-> ConnInit]

GuestStep(c) ==
    \/ GuestConnect(c)
    \/ GuestSend(c)
    \/ GuestWrite(c)
    \/ GuestReadAck(c)
    \/ GuestIoError(c)
    \/ GuestClose(c)
    \/ LinkFault(c)

HandlerStep(c) ==
    \/ HandlerRead(c)
    \/ HandlerIoError(c)
    \/ HandlerWriteAck(c)
    \/ HandlerForward(c)

ServeStep ==
    \/ ServeStart
    \/ ServeShutdown
    \/ ServeEnterAccept
    \/ \E c \in Conns : ServeAcceptReturn(c)
    \/ \E c \in Conns : ServeAcceptError(c)

ListenerNext ==
    \/ RunSetup
    \/ RunCerts
    \/ RunSpawn
    \/ RunSubscribe
    \/ RunReturn
    \/ Interrupt
    \/ SigSend
    \/ WatcherStart
    \/ WatcherShutdown
    \/ RelayStart
    \/ RelayConnect
    \/ RelayShutdown
    \/ RelayRecv
    \/ ServeStep
    \/ DrainRecv
    \/ \E c \in Conns : GuestStep(c)
    \/ \E c \in Conns : HandlerStep(c)

ListenerSpec == ListenerInit /\ [][ListenerNext]_vars

(***************************************************************************)
(* One listener in its accept loop (listener mode, every task started) and *)
(* guests whose reads and writes are split into arbitrary chunks.          *)
(***************************************************************************)
FramingInit ==
    /\ PkgParked
    /\ TickParked
    /\ DrnParked
    /\ WchParked
    /\ HostParked
    /\ ColParked
    /\ lcfg = [mode |-> "listener", enable_vm_agent |-> FALSE, enable_vsock_server |-> FALSE]
    /\ wire = [chunked |-> TRUE, frames |-> MaxFrames, long |-> FALSE]
    /\ runPc = "wait"
    /\ startErr = "none"
    /\ sigPc = "waiting"
    /\ interrupted = FALSE
    /\ rx = [r \in {"watcher", "relay", "serve", "run"} |-> "empty"]
    /\ bound = TRUE
    /\ spawned = [t \in {"agent", "watcher", "bind", "relay", "serve"} |->
                    IF t = "agent" THEN 0 ELSE 1]
    /\ watcherPc = "loop"
    /\ relayPc = "loop"
    /\ relayClient = TRUE
    /\ relayChan = <<>>
    /\ relayLog = <<>>
    /\ upserts = <<>>
    /\ servePc = "select"
    /\ serveChan = <<>>
    /\ drained = 0
    /\ conn = [c \in Conns |-> ConnInit]

\* the framing is a matter of one client and its handler: handlers share
\* nothing but the sender of the channel, so one guest connects here
FramingConns == {c \in Conns : c = 1}

FramingNext ==
    \/ ServeEnterAccept
    \/ \E c \in FramingConns : ServeAcceptReturn(c)
    \/ \E c \in FramingConns : ServeAcceptError(c)
    \/ DrainRecv
    \/ \E c \in FramingConns : GuestStep(c)
    \/ \E c \in FramingConns : HandlerStep(c)

FramingSpec == FramingInit /\ [][FramingNext]_vars

(***************************************************************************)
(* Properties of the listener.                                             *)
(***************************************************************************)
RECURSIVE SumOver(_, _)
SumOver(f, S) ==
    IF S = {} THEN 0
    ELSE LET x == CHOOSE y \in S : TRUE IN f[x] + SumOver(f, S \ {x})

\* messages the handlers have sent on vm_tx
Forwarded == SumOver([c \in Conns |-> Len(conn[c].fwdLog)], Conns)

ShutdownSent == sigPc = "done"

\* C1: every frame a handler has read and forwarded is on its way to the
\* sensor relay or has been taken by it: it is in the server's channel, in
\* the relay's channel, or among the messages the relay has processed
C1_FramesReachRelay ==
    Forwarded = Len(serveChan) + Len(relayChan) + Len(relayLog)

\* C2: framing round trip.  Whatever the chunking of the reads and writes,
\* the messages the handler forwards are the payloads of the send_data
\* calls, in order; the handler writes one acknowledgment of four zero bytes
\* per message; send_data fails only on a broken link; and on a healthy
\* link a send_data call in progress can always go on.
C2_FramingRoundTrip ==
    \A c \in Conns :
        LET k == conn[c]
        IN  /\ Len(k.fwdLog) <= Len(k.cCalls)
            /\ \A i \in 1..Len(k.fwdLog) : k.fwdLog[i] = k.cCalls[i]
            /\ k.hPc \in {"ack", "fwd"} =>
                  /\ Len(k.fwdLog) < Len(k.cCalls)
                  /\ BufSlice(k.buf, k.msgLen) = k.cCalls[Len(k.fwdLog) + 1]
            /\ \A i \in 1..Len(k.ackLog) : k.ackLog[i] = 0
            /\ k.hPc \in {"hdr", "body"} => Len(k.ackLog) = HeaderLen * Len(k.fwdLog)
            /\ k.hPc = "ack" => Len(k.ackLog) = HeaderLen * Len(k.fwdLog) + k.ackOff
            /\ k.hPc = "fwd" => Len(k.ackLog) = HeaderLen * (Len(k.fwdLog) + 1)
            /\ HeaderLen * k.cOk <= Len(k.ackLog)
            /\ k.cPc = "ready" =>
                  /\ k.cOk = Len(k.cCalls)
                  /\ Len(k.ackLog) = HeaderLen * k.cOk
            /\ k.cPc = "failed" => k.fault
            /\ (k.cPc \in {"writing", "ack"} /\ k.link = "accepted" /\ ~k.fault) =>
                  ENABLED (GuestWrite(c) \/ GuestReadAck(c) \/ HandlerRead(c)
                           \/ HandlerWriteAck(c) \/ HandlerForward(c))

\* two send_data calls returned Ok on one connection, the second with a
\* payload of more than one byte, and both messages were forwarded
C2_Witness ==
    \E c \in Conns :
        /\ conn[c].cOk = 2
        /\ Len(conn[c].fwdLog) = 2
        /\ Len(conn[c].cCalls[2]) > 1
        /\ conn[c].fwdLog = conn[c].cCalls

\* the handler's steps in the order of the cycle
HandlerCycleStep(a, b) ==
    \/ a = b
    \/ a = "none" /\ b = "hdr"
    \/ a = "hdr" /\ b = "body"
    \/ a = "body" /\ b = "ack"
    \/ a = "ack" /\ b = "fwd"
    \/ a = "fwd" /\ b = "hdr"
    \/ a \in {"hdr", "body", "ack"} /\ b = "closed"

\* C3: the handler cycles header, body, acknowledgment.  An acknowledgment
\* byte is written only after the whole body was read; a header byte is
\* read only when every earlier acknowledgment was written in full; a failed
\* read or write closes the handler; a closed handler reads, acknowledges
\* and forwards nothing more.
C3_HandlerCycle ==
    [][\A c \in Conns :
         LET k == conn[c]
             k2 == conn'[c]
         IN  /\ HandlerCycleStep(k.hPc, k2.hPc)
             /\ k2.ackLog # k.ackLog =>
                   /\ k.hPc = "ack"
                   /\ k.got = k.msgLen
                   /\ Len(k2.ackLog) > Len(k.ackLog)
             /\ k2.hdr # k.hdr /\ k2.hdr # <<>> =>
                   /\ k.hPc = "hdr"
                   /\ Len(k.ackLog) = HeaderLen * Len(k.fwdLog)
             /\ k2.fwdLog # k.fwdLog => k.hPc = "fwd"
             /\ (k2.hIo \in {"eof", "err"}) <=> (k2.hPc = "closed")
             /\ k.hPc = "closed" =>
                   /\ k2.hPc = "closed"
                   /\ Len(k2.c2s) >= Len(k.c2s)
                   /\ k2.s2c = k.s2c \/ Len(k2.s2c) < Len(k.s2c)
                   /\ k2.ackLog = k.ackLog
                   /\ k2.fwdLog = k.fwdLog
                   /\ k2.hdr = k.hdr /\ k2.got = k.got /\ k2.buf = k.buf
    ]_vars

\* a handler that completed a cycle and was then closed by a failed system
\* call while the guest had more bytes in flight
C3_Witness ==
    \E c \in Conns :
        /\ conn[c].hPc = "closed"
        /\ conn[c].hIo = "err"
        /\ Len(conn[c].fwdLog) >= 1
        /\ conn[c].c2s # <<>>

\* C4: once the shutdown was broadcast and has reached the server's
\* receiver, the accept loop can take a step without a new connection
C4_AcceptLoopCanStop ==
    (ShutdownSent /\ rx["serve"] = "msg" /\ servePc \in {"select", "in_accept"})
        => ENABLED ServeStep

\* C5: once the shutdown was broadcast, every running handler can take a
\* step towards its end without a byte from its guest
C5_HandlersCanStop ==
    \A c \in Conns :
        (ShutdownSent /\ conn[c].hPc \in {"hdr", "body", "ack", "fwd"})
            => ENABLED HandlerStep(c)

\* C6: an interrupt is never lost: once the shutdown was broadcast, no
\* receiver, of run's final wait or of a task, is left waiting for it
C6_InterruptNeverLost ==
    ShutdownSent => \A r \in DOMAIN rx : rx[r] # "empty"

\* C11: with skip_http set, no cycle of the package collector issues an RPC
\* upsert call, whatever URL is configured
C11_SkipHttpSuppressesRpc ==
    cfg.skip_http => \A i \in 1..Len(net) : net[i] # "rpc_upsert"

(***************************************************************************)
(* The timing of the scan cycles: run_vm_agent (vm_agent.rs 279-320) with  *)
(* tokio::time::interval, PackageMonitor::start (package_monitor.rs        *)
(* 257-310) with crossbeam's tick channel.                                 *)
(***************************************************************************)
Period == 2         \* the configured interval, in clock units
MaxTime == 6        \* the clock stops here

\* The first deadline of a ticker created at time t0.
\*   tokio::time::interval (vm_agent.rs line 281): the first tick completes
\*   immediately.  crossbeam::channel::tick (package_monitor.rs line 275):
\*   the first message is delivered one interval after the creation.
FirstDue(a, t0) == IF a = "VmAgent" THEN t0 ELSE t0 + Period

\* The deadline after the tick with deadline `due` was taken at time t.
\*   tokio's Interval, with the default MissedTickBehavior::Burst, schedules
\*   the next tick one period after the previous deadline (vm_agent.rs line
\*   309); crossbeam's tick channel holds at most one message and delivers
\*   the next one interval after the receipt (package_monitor.rs line 294).
NextDue(a, due, t) == IF a = "VmAgent" THEN due + Period ELSE t + Period

NoTime == 0 - 1

\* vm_agent.rs lines 280-305 / package_monitor.rs lines 272-285: the ticker
\* is created and the initial cycle is started
TkStartup ==
    /\ tkPc = "startup"
    /\ tkDue' = FirstDue(tkAgent, now)
    /\ tkLog' = <<[kind |-> "initial", due |-> NoTime, start |-> now, end |-> NoTime]>>
    /\ tkPc' = "cycle"
    /\ UNCHANGED <<tkAgent, now>>
    /\ UNCHANGED outsideTick

\* time passes: while a cycle runs, or while the loop waits for a tick that
\* is not due yet
TkAdvance ==
    /\ tkPc = "cycle" \/ (tkPc = "loop" /\ now < tkDue)
    /\ now < MaxTime
    /\ now' = now + 1
    /\ UNCHANGED <<tkAgent, tkDue, tkPc, tkLog>>
    /\ UNCHANGED outsideTick

\* VmAgent::run / process_packages returns.  run_vm_agent returns a failed
\* cycle's error (lines 305, 310); PackageMonitor logs it (285-287, 295-297).
TkCycleEnd ==
    /\ tkPc = "cycle"
    /\ \E ok \in BOOLEAN :
          tkPc' = IF ok \/ tkAgent = "PackageMonitor" THEN "loop" ELSE "returned"
    /\ tkLog' = [tkLog EXCEPT ![Len(tkLog)].end = now]
    /\ UNCHANGED <<tkAgent, now, tkDue>>
    /\ UNCHANGED outsideTick

\* vm_agent.rs lines 308-311 / package_monitor.rs lines 293-298: the tick
\* branch of the select starts a cycle
TkTick ==
    /\ tkPc = "loop"
    /\ now >= tkDue
    /\ Len(tkLog) <= MaxCycles
    /\ tkLog' = Append(tkLog, [kind |-> "tick", due |-> tkDue, start |-> now, end |-> NoTime])
    /\ tkDue' = NextDue(tkAgent, tkDue, now)
    /\ tkPc' = "cycle"
    /\ UNCHANGED <<tkAgent, now>>
    /\ UNCHANGED outsideTick

\* vm_agent.rs lines 312-315 / package_monitor.rs lines 300-303
TkShutdown ==
    /\ tkPc = "loop"
    /\ tkPc' = "stopped"
    /\ UNCHANGED <<tkAgent, now, tkDue, tkLog>>
    /\ UNCHANGED outsideTick

TickInit ==
    /\ PkgParked
    /\ LsnParked
    /\ ColParked
    /\ DrnParked
    /\ WchParked
    /\ HostParked
    /\ tkAgent \in {"VmAgent", "PackageMonitor"}
    /\ now = 0
    /\ tkDue = 0
    /\ tkPc = "startup"
    /\ tkLog = <<>>

TickNext ==
    \/ TkStartup
    \/ TkAdvance
    \/ TkCycleEnd
    \/ TkTick
    \/ TkShutdown

TickSpec == TickInit /\ [][TickNext]_vars

\* C12: the collector runs one cycle at startup, and the second cycle
\* starts no earlier than one interval after the startup
C12_SecondCycleAfterOneInterval ==
    /\ Len(tkLog) >= 1 => tkLog[1].kind = "initial" /\ tkLog[1].start = 0
    /\ Len(tkLog) >= 2 => tkLog[2].start >= tkLog[1].start + Period

\* the cycles after cycle i that were started by a tick that fell due while
\* cycle i was running
MissedDuring(i) ==
    { j \in (i + 1)..Len(tkLog) :
        /\ tkLog[j].due > tkLog[i].start
        /\ tkLog[j].due <= tkLog[i].end }

\* C13: the ticks that fall due while one cycle is running start at most one
\* cycle after it
C13_MissedTicksCoalesced ==
    \A i \in 1..Len(tkLog) : Cardinality(MissedDuring(i)) <= 1

(***************************************************************************)
(* The collectors: the dispatch of `run` (lib.rs 25-32), the file          *)
(* collector's path filter (bpf.rs 8-27, lib.rs 60-68, file_monitor.rs     *)
(* 103-111), the Monitor implementations and the MonitorRegistry.          *)
(***************************************************************************)
PathMax == 2        \* PATH_MAX of the generated bindings (bpf.rs line 11), scaled down
MaxPaths == 2       \* configured paths
MaxOps == 3         \* start and stop calls
MaxRegs == 2        \* register calls
U16 == 65536        \* `len as u16` (bpf.rs line 26)

\* the configured paths: '/' followed by letters, one of every length up to one
\* byte more than the buffer holds
PathSet == { [i \in 1..n |-> IF i = 1 THEN 47 ELSE 97] : n \in 1..(PathMax + 1) }

PathLists == SeqsUpTo(PathSet, MaxPaths)

ModeArgs == {"unset", "file-monitor", "vm-agent", "vsock-listener", "hybrid"}

\* config.rs line 21: `default_value = "file-monitor"`
ModeOf(arg) == IF arg = "unset" THEN "file-monitor" ELSE arg

\* lib.rs lines 26-31: the function `run` calls for a mode
RunFnOf(mode) ==
    CASE mode = "file-monitor" -> "run_file_monitor"
      [] mode = "vm-agent" -> "run_vm_agent"
      [] mode = "vsock-listener" -> "run_vsock_listener"
      [] OTHER -> "run_hybrid_mode"

\* path_cfg_t::new, bpf.rs lines 9-14
PathCfgNew == [path |-> [i \in 1..PathMax |-> 0], len |-> 0]

\* a variant of `set` that leaves the length as it was
PathCfgSetKeepLen(pc, p) ==
    [path |-> [i \in 1..PathMax |-> IF i <= Len(p) THEN p[i] ELSE pc.path[i]],
     len  |-> pc.len,
     over |-> Len(p) > PathMax]

\* path_cfg_t::set, bpf.rs lines 16-27: memcpy of path.len() bytes to the
\* start of the buffer, without a check against its size, then
\* `self.len = len as u16`.  `over` tells that bytes were written past the
\* end of the buffer.
PathCfgSet(pc, p) ==
    [path |-> [i \in 1..PathMax |-> IF i <= Len(p) THEN p[i] ELSE pc.path[i]],
     len  |-> Len(p) % U16,
     over |-> Len(p) > PathMax]

FmIdle ==
    [ running |-> FALSE,     \* FileMonitor.running
      pc      |-> "idle",    \* "idle","load","program","serving","failed","crashed"
      via     |-> "none",    \* "run_file_monitor" or "start"
      cfg     |-> PathCfgNew,\* the path_cfg local
      map     |-> <<>>,      \* paths_map: the entries written, by index
      oob     |-> FALSE,     \* a byte was written outside path_cfg's buffer
      tasks   |-> 0 ]        \* drain tasks FileMonitor::start has spawned

\* what a start or stop call appends to the log
LogOp(m, op, res) == Append(monLog, [mon |-> m, op |-> op, res |-> res])

\* the file collector's setup has failed: run_file_monitor returns the
\* error; FileMonitor::start returns it and the object can be used again
\* (the path_cfg local ends with the call)
FmFailed ==
    IF fm.via = "start"
    THEN /\ fm' = [fm EXCEPT !.pc = "idle", !.cfg = PathCfgNew]
         /\ monLog' = LogOp("file_monitor", "start", "err")
    ELSE /\ fm' = [fm EXCEPT !.pc = "failed"]
         /\ UNCHANGED monLog

\* lib.rs lines 25-32: run dispatches on the mode
RunDispatch ==
    /\ runFn = "none"
    /\ runFn' = RunFnOf(ModeOf(fcfg.mode_arg))
    /\ fm' = IF RunFnOf(ModeOf(fcfg.mode_arg)) = "run_file_monitor"
             THEN [fm EXCEPT !.pc = "load", !.via = "run_file_monitor"]
             ELSE fm
    /\ UNCHANGED <<fcfg, registry, monLog>>
    /\ UNCHANGED <<pkgVars, lsnVars, tickVars, drnVars, hostVars, wchVars>>

\* lib.rs lines 48-63 / file_monitor.rs lines 91-106: the BPF object is
\* loaded, the ring buffer and the paths map are taken, path_cfg is created
FmLoad ==
    /\ fm.pc = "load"
    /\ \E ok \in BOOLEAN :
          IF ok
          THEN /\ fm' = [fm EXCEPT !.pc = "program", !.cfg = PathCfgNew, !.map = <<>>]
               /\ UNCHANGED monLog
          ELSE FmFailed
    /\ UNCHANGED <<fcfg, runFn, registry>>
    /\ UNCHANGED <<pkgVars, lsnVars, tickVars, drnVars, hostVars, wchVars>>

\* lib.rs lines 64-68 / file_monitor.rs lines 107-111: one turn of the loop
\* over the paths.  Writing past the buffer is undefined behaviour: the
\* process crashes or goes on.  paths_map.set may fail.
FmProgramPath ==
    /\ fm.pc = "program"
    /\ Len(fm.map) < Len(fcfg.paths)
    /\ LET c2 == PathCfgSet(fm.cfg, fcfg.paths[Len(fm.map) + 1])
       IN  \E crash \in BOOLEAN, setOk \in BOOLEAN :
              IF c2.over /\ crash
              THEN /\ fm' = [fm EXCEPT !.pc = "crashed", !.oob = TRUE]
                   /\ UNCHANGED monLog
              ELSE IF setOk
              THEN /\ fm' = [fm EXCEPT !.cfg = [path |-> c2.path, len |-> c2.len],
                                       !.oob = @ \/ c2.over,
                                       !.map = Append(@, [path |-> c2.path, len |-> c2.len])]
                   /\ UNCHANGED monLog
              ELSE /\ fm' = [fm EXCEPT !.cfg = IF fm.via = "start" THEN PathCfgNew
                                               ELSE [path |-> c2.path, len |-> c2.len],
                                       !.oob = @ \/ c2.over,
                                       !.pc = IF fm.via = "start" THEN "idle" ELSE "failed"]
                   /\ monLog' = IF fm.via = "start"
                                THEN LogOp("file_monitor", "start", "err")
                                ELSE monLog
    /\ UNCHANGED <<fcfg, runFn, registry>>
    /\ UNCHANGED <<pkgVars, lsnVars, tickVars, drnVars, hostVars, wchVars>>

\* a variant of start that returns Ok without marking the collector running
StartedRunningNot == FALSE

\* file_monitor.rs line 119, package_monitor.rs line 272: `self.running = true`
StartedRunning == TRUE

\* lib.rs lines 70-74 / file_monitor.rs lines 113-151: the program is loaded
\* and attached; FileMonitor::start marks the collector running, spawns the
\* event task and returns Ok
FmAttach ==
    /\ fm.pc = "program"
    /\ Len(fm.map) = Len(fcfg.paths)
    /\ \E ok \in BOOLEAN :
          IF ~ok THEN FmFailed
          ELSE IF fm.via = "start"
          THEN /\ fm' = [fm EXCEPT !.pc = "idle", !.running = StartedRunning,
                                   !.cfg = PathCfgNew, !.tasks = @ + 1]
               /\ monLog' = LogOp("file_monitor", "start", "ok")
          ELSE /\ fm' = [fm EXCEPT !.pc = "serving"]
               /\ UNCHANGED monLog
    /\ UNCHANGED <<fcfg, runFn, registry>>
    /\ UNCHANGED <<pkgVars, lsnVars, tickVars, drnVars, hostVars, wchVars>>

\* MonitorRegistry::get_monitor_mut, monitor.rs lines 62-64: a caller reaches
\* a collector through the registry, by its name
Registered(m) == \E i \in 1..Len(registry) : registry[i] = m

\* get_monitor_mut and register take `&mut self` (monitor.rs lines 47, 62):
\* while FileMonitor::start is awaited the registry is borrowed, so no other
\* call on it is made before start has returned; after a crash none is made
RegistryFree == fm.pc = "idle"

\* a variant of start that sets up the collector whatever its flag
AlreadyRunningNever(f) == FALSE

\* file_monitor.rs lines 74-76: `if self.running { return Ok(()); }`
AlreadyRunning(f) == f.running

\* a variant of stop that flips the flag
StopToggle(r) == ~r

\* file_monitor.rs lines 155-160, package_monitor.rs lines 313-318: stop
\* returns at once when the collector is not running, else clears the flag
StopRunning(r) == IF ~r THEN r ELSE FALSE

\* FileMonitor::start, file_monitor.rs lines 73-78: the call; a running
\* collector returns Ok at once
FmStart ==
    /\ Registered("file_monitor")
    /\ RegistryFree
    /\ Len(monLog) < MaxOps
    /\ IF AlreadyRunning(fm)
       THEN /\ monLog' = LogOp("file_monitor", "start", "ok")
            /\ UNCHANGED fm
       ELSE /\ fm' = [fm EXCEPT !.pc = "load", !.via = "start"]
            /\ UNCHANGED monLog
    /\ UNCHANGED <<fcfg, runFn, registry>>
    /\ UNCHANGED <<pkgVars, lsnVars, tickVars, drnVars, hostVars, wchVars>>

\* FileMonitor::stop, file_monitor.rs lines 154-164
FmStop ==
    /\ Registered("file_monitor")
    /\ RegistryFree
    /\ Len(monLog) < MaxOps
    /\ fm' = [fm EXCEPT !.running = StopRunning(@)]
    /\ monLog' = LogOp("file_monitor", "stop", "ok")
    /\ UNCHANGED <<fcfg, runFn, registry>>
    /\ UNCHANGED <<pkgVars, lsnVars, tickVars, drnVars, hostVars, wchVars>>

\* PackageMonitor::start, package_monitor.rs lines 257-310, as one call: a
\* running collector returns Ok at once; otherwise the flag is set, the
\* initial cycle is run (its failure is logged), the loop task is spawned
\* and Ok is returned.  No path of start returns an error.
PmStart ==
    /\ Registered("package_monitor")
    /\ RegistryFree
    /\ Len(monLog) < MaxOps
    /\ running' = IF running THEN running ELSE StartedRunning
    /\ monLog' = LogOp("package_monitor", "start", "ok")
    /\ UNCHANGED <<agent, cfg, pkgPc, cycPc, cycKind, toolOut, pkgs, net, cycRes,
                   cycles, availNow, busOpen, busLog>>
    /\ UNCHANGED <<fcfg, runFn, fm, registry>>
    /\ UNCHANGED <<lsnVars, tickVars, drnVars, hostVars, wchVars>>

\* PackageMonitor::stop, package_monitor.rs lines 312-320
PmStop ==
    /\ Registered("package_monitor")
    /\ RegistryFree
    /\ Len(monLog) < MaxOps
    /\ running' = StopRunning(running)
    /\ monLog' = LogOp("package_monitor", "stop", "ok")
    /\ UNCHANGED <<agent, cfg, pkgPc, cycPc, cycKind, toolOut, pkgs, net, cycRes,
                   cycles, availNow, busOpen, busLog>>
    /\ UNCHANGED <<fcfg, runFn, fm, registry>>
    /\ UNCHANGED <<lsnVars, tickVars, drnVars, hostVars, wchVars>>

\* Monitor::name, file_monitor.rs line 43 and package_monitor.rs line 224
MonitorNames == {"file_monitor", "package_monitor"}

\* MonitorRegistry::register, monitor.rs lines 47-49: the monitor is pushed
Register ==
    /\ Len(registry) < MaxRegs
    /\ RegistryFree
    /\ \E m \in MonitorNames : registry' = Append(registry, m)
    /\ UNCHANGED <<fcfg, runFn, fm, monLog>>
    /\ UNCHANGED <<pkgVars, lsnVars, tickVars, drnVars, hostVars, wchVars>>

(***************************************************************************)
(* `run` in file-monitor mode: the dispatch and run_file_monitor.          *)
(***************************************************************************)
FileInit ==
    /\ PkgParked
    /\ LsnParked
    /\ TickParked
    /\ DrnParked
    /\ WchParked
    /\ HostParked
    /\ fcfg \in [mode_arg : ModeArgs, paths : PathLists]
    /\ runFn = "none"
    /\ fm = FmIdle
    /\ registry = <<>>
    /\ monLog = <<>>

FileNext ==
    \/ RunDispatch
    \/ FmLoad
    \/ FmProgramPath
    \/ FmAttach

FileSpec == FileInit /\ [][FileNext]_vars

(***************************************************************************)
(* A caller that registers collectors and starts and stops them.           *)
(***************************************************************************)
MonitorInit ==
    /\ PkgParked
    /\ LsnParked
    /\ TickParked
    /\ DrnParked
    /\ WchParked
    /\ HostParked
    /\ fcfg \in [mode_arg : {"unset"}, paths : PathLists]
    /\ runFn = "none"
    /\ fm = FmIdle
    /\ registry = <<>>
    /\ monLog = <<>>

MonitorNext ==
    \/ Register
    \/ FmStart
    \/ FmLoad
    \/ FmProgramPath
    \/ FmAttach
    \/ FmStop
    \/ PmStart
    \/ PmStop

MonitorSpec == MonitorInit /\ [][MonitorNext]_vars

(***************************************************************************)
(* Properties of the collectors.                                           *)
(***************************************************************************)
\* C14: when no mode was selected, run starts the package collector for an
\* empty list of paths and the file collector otherwise
C14_DefaultSelection ==
    (fcfg.mode_arg = "unset" /\ runFn # "none") =>
        IF fcfg.paths = <<>>
        THEN runFn = "run_vm_agent"
        ELSE runFn = "run_file_monitor"

LongPathConfigured == \E k \in 1..Len(fcfg.paths) : Len(fcfg.paths[k]) > PathMax

AllPathsFit == \A k \in 1..Len(fcfg.paths) : Len(fcfg.paths[k]) <= PathMax

\* C15: with a configured path longer than PATH_MAX the file collector's
\* start fails: no entry longer than PATH_MAX is written, no byte is written
\* outside the buffer, the collector is not marked running and start does
\* not return Ok
C15_LongPathRejected ==
    LongPathConfigured =>
        /\ ~fm.oob
        /\ \A k \in 1..Len(fm.map) : fm.map[k].len <= PathMax
        /\ ~fm.running
        /\ \A i \in 1..Len(monLog) :
              ~(monLog[i].mon = "file_monitor" /\ monLog[i].op = "start"
                /\ monLog[i].res = "ok")

\* C16: for paths that all fit the buffer, every written entry has a length
\* of at most PATH_MAX and only zero bytes from its length on
C16_EntriesZeroPadded ==
    AllPathsFit =>
        \A k \in 1..Len(fm.map) :
            /\ fm.map[k].len <= PathMax
            /\ \A i \in (fm.map[k].len + 1)..PathMax : fm.map[k].path[i] = 0

\* C17: the entry written at index i for a path p that fits the buffer has
\* the length of p, and its first bytes are those of p
C17_EntryHoldsPath ==
    \A k \in 1..Len(fm.map) :
        Len(fcfg.paths[k]) <= PathMax =>
            /\ fm.map[k].len = Len(fcfg.paths[k])
            /\ Take(fm.map[k].path, fm.map[k].len) = fcfg.paths[k]

\* FileMonitor::start has programmed a shorter path after a longer one and
\* has returned Ok
C17_Witness ==
    /\ Len(fm.map) = 2
    /\ AllPathsFit
    /\ Len(fcfg.paths[2]) < Len(fcfg.paths[1])
    /\ fm.via = "start"
    /\ fm.running

\* is_running, file_monitor.rs lines 166-168, package_monitor.rs 322-324
IsRunning(m) == IF m = "file_monitor" THEN fm.running ELSE running

\* the calls on collector m that have returned
CallsOn(m) == { i \in 1..Len(monLog) : monLog[i].mon = m }

LastCallOn(m) == monLog[CHOOSE i \in CallsOn(m) : \A j \in CallsOn(m) : j <= i]

\* C18: a collector is not running before its first start; it is running
\* when its last call was a start that returned Ok, and not running when
\* its last call was a stop
C18_RunningFollowsStartStop ==
    \A m \in MonitorNames :
        IF CallsOn(m) = {}
        THEN ~IsRunning(m)
        ELSE /\ (LastCallOn(m).op = "start" /\ LastCallOn(m).res = "ok") => IsRunning(m)
             /\ LastCallOn(m).op = "stop" => ~IsRunning(m)

\* both collectors were started, and the file collector was stopped again
C18_Witness ==
    /\ Len(monLog) = 3
    /\ CallsOn("file_monitor") # {} /\ CallsOn("package_monitor") # {}
    /\ LastCallOn("file_monitor").op = "stop"
    /\ LastCallOn("package_monitor").op = "start"
    /\ IsRunning("package_monitor")
    /\ \E i \in CallsOn("file_monitor") : monLog[i].op = "start" /\ monLog[i].res = "ok"

\* C19: every stop returns Ok and leaves the collector not running; a stop
\* of a collector that is not running (stopped before, or never started)
\* changes nothing but the record of the call
C19_StopIdempotent ==
    [][\A m \in MonitorNames :
          (/\ Len(monLog') = Len(monLog) + 1
           /\ monLog'[Len(monLog')].op = "stop"
           /\ monLog'[Len(monLog')].mon = m) =>
              /\ monLog'[Len(monLog')].res = "ok"
              /\ ~IsRunning(m)'
              /\ ~IsRunning(m) => (fm' = fm /\ running' = running)
              /\ registry' = registry
    ]_vars

\* a collector was started and then stopped twice in a row
C19_Witness ==
    \E m \in MonitorNames :
        /\ Len(monLog) = 3
        /\ \A i \in 1..3 : monLog[i].mon = m
        /\ monLog[1].op = "start" /\ monLog[1].res = "ok"
        /\ monLog[2].op = "stop" /\ monLog[3].op = "stop"
        /\ ~IsRunning(m)

\* C20: no two registered collectors have the same name
C20_NoDuplicateNames ==
    \A i, j \in 1..Len(registry) : i # j => registry[i] # registry[j]

(***************************************************************************)
(* The sensor relay on its own: SensorRelay::start with a channel whose    *)
(* sender is held by a caller that sends messages, and a shutdown channel. *)
(***************************************************************************)
RelayMsgs == [vm : {1}, data : { p \in Payloads : Len(p) <= 1 }]

\* mpsc::Sender::send on the relay's channel (created with capacity 100,
\* lib.rs line 154) by whoever holds the sender
RelaySend ==
    /\ ~VmMsgTxDropped
    /\ relayPc \in {"spawned", "connecting", "loop"}
    /\ Len(relayChan) < ChanCap
    /\ Len(relayChan) + Len(relayLog) < MaxFrames
    /\ \E m \in RelayMsgs : relayChan' = Append(relayChan, m)
    /\ UNCHANGED <<lcfg, startErr, wire, runPc, sigPc, interrupted, rx, bound, spawned,
                   watcherPc, relayPc, relayClient, relayLog, upserts, servePc,
                   serveChan, drained, conn>>
    /\ UNCHANGED outsideLsn

RelayInit ==
    /\ PkgParked
    /\ TickParked
    /\ DrnParked
    /\ WchParked
    /\ HostParked
    /\ ColParked
    /\ lcfg = [mode |-> "listener", enable_vm_agent |-> FALSE, enable_vsock_server |-> FALSE]
    /\ wire = [chunked |-> FALSE, frames |-> 0, long |-> FALSE]
    /\ runPc = "wait"
    /\ startErr = "none"
    /\ sigPc = "waiting"
    /\ interrupted = FALSE
    /\ rx = [r \in {"watcher", "relay", "serve", "run"} |->
                IF r \in {"relay", "run"} THEN "empty" ELSE "none"]
    /\ bound = FALSE
    /\ spawned = [t \in {"agent", "watcher", "bind", "relay", "serve"} |->
                    IF t = "relay" THEN 1 ELSE 0]
    /\ watcherPc = "none"
    /\ relayPc = "spawned"
    /\ relayClient = FALSE
    /\ relayChan = <<>>
    /\ relayLog = <<>>
    /\ upserts = <<>>
    /\ servePc = "none"
    /\ serveChan = <<>>
    /\ drained = 0
    /\ conn = <<>>

RelayNext ==
    \/ RelayStart
    \/ RelayConnect
    \/ RelaySend
    \/ RelayRecv
    \/ RelayShutdown
    \/ Interrupt
    \/ SigSend
    \/ RunReturn

RelaySpec == RelayInit /\ [][RelayNext]_vars

\* the relay has taken a message in this step
RelayTook == Len(relayLog') = Len(relayLog) + 1

UpsertAttempted(r) == r.res \in {"upserted", "upsert_failed"}

\* C21: a message the relay takes leaves the channel for good and leads to
\* at most one upsert; when the upsert was tried and failed, one reconnect
\* is tried, the message is not upserted later, and the loop goes on with
\* the rest of the channel
C21_RelayNoRetry ==
    [][RelayTook =>
         LET r == relayLog'[Len(relayLog')]
         IN  /\ relayChan # <<>> /\ relayChan' = Tail(relayChan)
             /\ r.data = Head(relayChan).data
             /\ relayLog' = Append(relayLog, r)
             /\ upserts' = IF r.res = "upserted" THEN Append(upserts, r.data) ELSE upserts
             /\ (UpsertAttempted(r) /\ r.res # "upserted") => r.reconnect \in {"ok", "failed"}
             /\ r.res = "upserted" => r.reconnect = "none"
             /\ relayPc' = "loop"
             /\ relayClient'
    ]_vars

\* an upsert failed, the reconnect failed too, and the next message was
\* upserted
C21_Witness ==
    /\ Len(relayLog) = 2
    /\ relayLog[1].res = "upsert_failed" /\ relayLog[1].reconnect = "failed"
    /\ relayLog[2].res = "upserted"
    /\ upserts = <<relayLog[2].data>>

\* the relay has been handed the message: it is in the relay's channel or
\* the relay has taken it
AtRelay(data) ==
    \/ \E i \in 1..Len(relayChan) : relayChan[i].data = data
    \/ \E i \in 1..Len(relayLog) : relayLog[i].data = data

\* C22: after a frame whose payload does not decode, a valid frame on the
\* same connection is processed as usual: once it has left the server's
\* channel it is with the sensor relay
C22_ValidFrameAfterBadFrame ==
    \A c \in Conns :
        (/\ Len(conn[c].fwdLog) = 2
         /\ ~Decodes(conn[c].fwdLog[1])
         /\ Decodes(conn[c].fwdLog[2])
         /\ serveChan = <<>>) => AtRelay(conn[c].fwdLog[2])

(***************************************************************************)
(* The startup and shutdown of run_vsock_listener and run_hybrid_mode with *)
(* the tasks they spawn, and no guest.                                     *)
(***************************************************************************)
StartupNext ==
    \/ RunSetup
    \/ RunCerts
    \/ RunSpawn
    \/ RunSubscribe
    \/ RunReturn
    \/ Interrupt
    \/ SigSend
    \/ WatcherStart
    \/ WatcherShutdown
    \/ RelayStart
    \/ RelayConnect
    \/ RelayShutdown
    \/ RelayRecv
    \/ ServeStart
    \/ ServeShutdown
    \/ ServeEnterAccept

StartupSpec == ListenerInit /\ [][StartupNext]_vars

\* C23: when loading the certificates or binding the listener socket has
\* failed at startup, run has returned the error: it does not reach its
\* final wait, and neither the relay nor the server has been started
C23_StartupFailureReturnsError ==
    startErr # "none" =>
        /\ runPc = "returned_err"
        /\ relayPc = "none"
        /\ servePc = "none"
        /\ ~bound

\* hybrid mode with neither component selected: the bind failed after the
\* VM agent and the watcher were spawned, and run has returned the error
C23_Witness ==
    /\ lcfg.mode = "hybrid"
    /\ startErr = "bind"
    /\ spawned["agent"] = 1 /\ spawned["watcher"] = 1
    /\ runPc = "returned_err"

(***************************************************************************)
(* The file collector's drain task: the task that run_file_monitor         *)
(* (lib.rs lines 84-100) and FileMonitor::start (file_monitor.rs lines     *)
(* 122-148) spawn over the ring buffer.                                    *)
(***************************************************************************)
MaxRecs == 3        \* records the kernel program submits
RecFieldLen == 2    \* bytes of a record's filename field, scaled down

\* the filename field of a record: a first byte that is valid UTF-8 (97) or
\* not (255), then a terminator (0) or a field filled to its end
RecFields ==
    { [i \in 1..RecFieldLen |-> IF i = 1 THEN b ELSE c] : b \in {97, 255}, c \in {0, 97} }

\* a C char array as a byte string: up to the first zero byte, or the whole
\* buffer
RECURSIVE CStr(_)
CStr(b) ==
    IF b = <<>> \/ Head(b) = 0 THEN <<>> ELSE <<Head(b)>> \o CStr(Tail(b))

\* the byte 255 occurs in no UTF-8 string
Utf8Valid(b) == \A i \in 1..Len(b) : b[i] # 255

\* Event::try_from(&event_t): the string fields are converted, a field
\* that is not valid UTF-8 is an error
EventTryFrom(rec) ==
    LET str == CStr(rec.filename)
    IN  IF Utf8Valid(str)
        THEN [ok |-> TRUE, ev |-> [id |-> rec.id, filename |-> str]]
        ELSE [ok |-> FALSE, ev |-> [id |-> rec.id, filename |-> <<>>]]

\* the kernel program submits a record to the ring buffer
KernelSubmit ==
    /\ dPc # "none"
    /\ emitted < MaxRecs
    /\ \E f \in RecFields :
          ring' = Append(ring, [id |-> emitted + 1, filename |-> f])
    /\ emitted' = emitted + 1
    /\ UNCHANGED <<dVia, dPc, dCur, dLog, fbusRead, fbus, fbusOpen, dInt>>
    /\ UNCHANGED outsideDrn

\* lib.rs line 86, file_monitor.rs line 124: `readable_mut().await` returns
\* when the ring buffer has records
RingWake ==
    /\ dPc = "wait"
    /\ ring # <<>>
    /\ dPc' = "next"
    /\ UNCHANGED <<dVia, ring, emitted, dCur, dLog, fbusRead, fbus, fbusOpen, dInt>>
    /\ UNCHANGED outsideDrn

\* what the task is left with after it has taken record rec: run_file_monitor
\* unwraps the conversion (lib.rs line 90), prints the event and gives it to
\* the client, whose error it ignores (lines 92-95); FileMonitor::start
\* logs a failed conversion and goes on (file_monitor.rs lines 128-143)
TakeOutcome(via, rec) ==
    LET conv == EventTryFrom(rec)
    IN  IF via = "run_file_monitor"
        THEN IF conv.ok THEN [pc |-> "next", res |-> "printed", cur |-> <<>>]
             ELSE [pc |-> "panicked", res |-> "panic", cur |-> <<>>]
        ELSE IF conv.ok THEN [pc |-> "send", res |-> "converted", cur |-> <<conv.ev>>]
             ELSE [pc |-> "next", res |-> "decode_error", cur |-> <<>>]

\* lib.rs lines 88-97, file_monitor.rs lines 126-146: `ringbuf.next()`.
\* With no record left the readiness is cleared, the task yields and waits
\* again; else the record is consumed and converted.
RingTake ==
    /\ dPc = "next"
    /\ IF ring = <<>>
       THEN /\ dPc' = "wait"
            /\ UNCHANGED <<ring, dCur, dLog>>
       ELSE LET o == TakeOutcome(dVia, Head(ring))
            IN  /\ ring' = Tail(ring)
                /\ dPc' = o.pc
                /\ dCur' = o.cur
                /\ dLog' = IF o.res = "converted" THEN dLog
                           ELSE Append(dLog, [id |-> Head(ring).id, res |-> o.res])
    /\ UNCHANGED <<dVia, emitted, fbusRead, fbus, fbusOpen, dInt>>
    /\ UNCHANGED outsideDrn

\* a variant of the bus that hands the newest event out first
BusPushFront(bus, ev) == <<ev>> \o bus

\* mpsc::Sender::send, file_monitor.rs lines 131-133: the event is queued
\* behind the events sent before
BusPush(bus, ev) == Append(bus, ev)

\* file_monitor.rs lines 134-138: `break` after a failed send leaves the
\* `while let` loop; lines 145-146 and the enclosing `loop` bring the task
\* back to the wait for readiness
AfterSendFailed == "wait"

\* capacity of the bus: the argument of the caller's mpsc::channel
BusCap == 1

\* the events that are queued on the bus, not yet taken by the receiver
BusQueued == Len(fbus) - fbusRead

\* a variant of the send that gives up on a full bus (try_send)
SendWhenFullDrop == "drop"

\* file_monitor.rs lines 131-133: `event_sender.send(..).await` waits for
\* room on a full bus
SendWhenFull == "wait"

\* file_monitor.rs lines 131-138: the event is sent on the bus.  The send
\* completes when the bus has room, and fails when the receiver is gone.
RingSend ==
    /\ dPc = "send"
    /\ IF fbusOpen
       THEN IF BusQueued < BusCap
            THEN /\ fbus' = BusPush(fbus, dCur[1])
                 /\ dLog' = Append(dLog, [id |-> dCur[1].id, res |-> "sent"])
                 /\ dPc' = "next"
            ELSE /\ SendWhenFull = "drop"
                 /\ dLog' = Append(dLog, [id |-> dCur[1].id, res |-> "dropped"])
                 /\ dPc' = "next"
                 /\ UNCHANGED fbus
       ELSE /\ dLog' = Append(dLog, [id |-> dCur[1].id, res |-> "send_failed"])
            /\ dPc' = AfterSendFailed
            /\ UNCHANGED fbus
    /\ dCur' = <<>>
    /\ UNCHANGED <<dVia, ring, emitted, fbusRead, fbusOpen, dInt>>
    /\ UNCHANGED outsideDrn

\* the receiver of the bus takes the oldest queued event
BusRecv ==
    /\ dVia = "start"
    /\ fbusOpen
    /\ BusQueued > 0
    /\ fbusRead' = fbusRead + 1
    /\ UNCHANGED <<dVia, ring, emitted, dPc, dCur, dLog, fbus, fbusOpen, dInt>>
    /\ UNCHANGED outsideDrn

\* the receiver of the bus is dropped
BusDrop ==
    /\ dVia = "start"
    /\ fbusOpen
    /\ fbusOpen' = FALSE
    /\ UNCHANGED <<dVia, ring, emitted, dPc, dCur, dLog, fbusRead, fbus, dInt>>
    /\ UNCHANGED outsideDrn

\* the process interrupt.  run_file_monitor waits for it and returns
\* (lib.rs lines 102-107), which ends the process and the task with it;
\* the task FileMonitor::start spawned is given nothing that tells it of
\* the interrupt (file_monitor.rs lines 122-148)
RingInterrupt ==
    /\ ~dInt
    /\ dInt' = TRUE
    /\ dPc' = IF dVia = "run_file_monitor" THEN "ended" ELSE dPc
    /\ dCur' = IF dVia = "run_file_monitor" THEN <<>> ELSE dCur
    /\ UNCHANGED <<dVia, ring, emitted, dLog, fbusRead, fbus, fbusOpen>>
    /\ UNCHANGED outsideDrn

RingInit ==
    /\ PkgParked
    /\ WchParked
    /\ HostParked
    /\ LsnParked
    /\ TickParked
    /\ ColParked
    /\ dVia \in {"run_file_monitor", "start"}
    /\ ring = <<>>
    /\ emitted = 0
    /\ dPc = "wait"
    /\ dCur = <<>>
    /\ dLog = <<>>
    /\ fbusRead = 0
    /\ fbus = <<>>
    /\ fbusOpen = TRUE
    /\ dInt = FALSE

\* the steps of the task itself
RingTaskStep ==
    \/ RingWake
    \/ RingTake
    \/ RingSend

RingNext ==
    \/ KernelSubmit
    \/ RingTaskStep
    \/ BusRecv
    \/ BusDrop
    \/ RingInterrupt

RingSpec == RingInit /\ [][RingNext]_vars

(***************************************************************************)
(* Properties of the drain task.                                           *)
(***************************************************************************)
SendFailedSeen == \E i \in 1..Len(dLog) : dLog[i].res = "send_failed"

\* C24: once a send on the bus has failed, the drain task has ended
C24_TaskEndsOnClosedBus ==
    SendFailedSeen => dPc = "ended"

DecodeFailedSeen == \E i \in 1..Len(dLog) : dLog[i].res \in {"decode_error", "panic"}

\* C25: a record that fails to convert does not end the draining: the
\* task is still at its loop
C25_DecodeErrorKeepsDraining ==
    (DecodeFailedSeen /\ ~dInt) => dPc \in {"wait", "next", "send"}

\* C26: after the process interrupt, a drain task that is blocked in its
\* wait has a step to take (the shutdown), or has ended
C26_DrainTaskCanStop ==
    (dInt /\ dPc = "wait" /\ ring = <<>>) => ENABLED RingTaskStep

\* C30: the events on the bus are in the order in which their records were
\* read: the bus holds the events of the records that were sent, in the
\* order of the task's log, and that is the order of the ring buffer
C30_BusInReadOrder ==
    /\ \A i, j \in 1..Len(dLog) : i < j => dLog[i].id < dLog[j].id
    /\ \A i, j \in 1..Len(fbus) : i < j => fbus[i].id < fbus[j].id
    /\ \A i \in 1..Len(fbus) :
          \E k \in 1..Len(dLog) : dLog[k].id = fbus[i].id /\ dLog[k].res = "sent"
    /\ \A k \in 1..Len(dLog) :
          dLog[k].res = "sent" => \E i \in 1..Len(fbus) : fbus[i].id = dLog[k].id

\* two events were sent, with a record between them that did not convert
C30_Witness ==
    /\ Len(fbus) = 2
    /\ fbus[1].id = 1 /\ fbus[2].id = 3
    /\ \E k \in 1..Len(dLog) : dLog[k].id = 2 /\ dLog[k].res = "decode_error"

(***************************************************************************)
(* Properties of PackageMonitor::start, stop and process_packages.         *)
(***************************************************************************)
\* C27: no scan cycle of the package collector runs inside the start call.
\* (The cycle of kind "initial" is the call of process_packages at line
\* 285 of start, before the task is spawned at line 292.)
C27_NoCycleInsideStart ==
    agent = "PackageMonitor" => ~(pkgPc = "in_cycle" /\ cycKind = "initial")

(***************************************************************************)
(* The package collector with a caller that stops it after start has       *)
(* returned.                                                               *)
(***************************************************************************)
\* stop takes `&mut self` (package_monitor.rs line 312): it is called when
\* start has returned, that is when the loop task exists
StartReturned ==
    \/ pkgPc \in {"loop", "task_ended"}
    \/ pkgPc = "in_cycle" /\ cycKind = "tick"

StopCall == StartReturned /\ PmStop

StopInit ==
    /\ LsnParked
    /\ TickParked
    /\ DrnParked
    /\ WchParked
    /\ HostParked
    /\ fcfg = [mode_arg |-> "unset", paths |-> <<>>]
    /\ runFn = "none"
    /\ fm = FmIdle
    /\ registry = <<"package_monitor">>
    /\ monLog = <<>>
    /\ agent = "PackageMonitor"
    /\ cfg \in Configs
    /\ pkgPc = "startup"
    /\ cycPc = "idle"
    /\ cycKind = "none"
    /\ toolOut = <<>>
    /\ pkgs = <<>>
    /\ net = <<>>
    /\ cycRes = "none"
    /\ cycles = 0
    /\ availNow = TRUE
    /\ running = FALSE
    /\ busOpen = TRUE
    /\ busLog = <<>>

StopNext ==
    \/ PackageMonitorStart
    \/ CycleScan
    \/ CycleEmit
    \/ CycleSend
    \/ Tick
    \/ PkgShutdown
    \/ BusClose
    \/ StopCall

StopSpec == StopInit /\ [][StopNext]_vars

StopReturned == \E i \in 1..Len(monLog) : monLog[i].op = "stop"

\* C28: once stop has returned, no scan cycle is started
C28_NoCycleAfterStop ==
    [][(StopReturned /\ pkgPc # "in_cycle") => pkgPc' # "in_cycle"]_vars

\* C29: in a cycle of the package collector the PackageUpdate event is sent
\* once, with the cycle's report, before anything of the cycle is
\* transmitted; a cycle transmits only after its event was sent
C29_EventBeforeTransmission ==
    [][agent = "PackageMonitor" =>
         /\ busLog' # busLog =>
               /\ cycPc = "emit" /\ cycPc' = "send"
               /\ net = <<>>
               /\ busLog' = Append(busLog, Len(pkgs))
         /\ (cycPc' = "send" /\ cycPc # "send") => busLog' # busLog
         /\ net' # net /\ net' # <<>> => cycPc = "send" /\ busLog' = busLog
    ]_vars

\* two cycles have emitted their event and the second has then sent its
\* report over the transport
C29_Witness ==
    /\ agent = "PackageMonitor"
    /\ cycles = 2
    /\ Len(busLog) = 2
    /\ net = <<"vsock_connect", "vsock_send">>

(***************************************************************************)
(* The bus of the file collector when it is full.                          *)
(***************************************************************************)
\* the records the task has consumed from the ring buffer
ConsumedIds == 1..(emitted - Len(ring))

LoggedAs(id, res) == \E k \in 1..Len(dLog) : dLog[k].id = id /\ dLog[k].res = res

OnBus(id) == \E i \in 1..Len(fbus) : fbus[i].id = id

\* C31: while the bus is open no event is lost to a full bus: every record
\* the task has consumed either failed to convert, or its event is on the
\* bus, or the task holds it in a send that waits for room
C31_NoDropOnFullBus ==
    (dVia = "start" /\ fbusOpen) =>
        /\ \A id \in ConsumedIds :
              \/ LoggedAs(id, "decode_error")
              \/ OnBus(id) /\ LoggedAs(id, "sent")
              \/ dPc = "send" /\ dCur # <<>> /\ dCur[1].id = id
        /\ (dPc = "send" /\ BusQueued < BusCap) => ENABLED RingSend
        /\ BusQueued <= BusCap

\* the bus is open and full, and the task holds a converted event in a send
\* that waits for room
C31_Witness ==
    /\ dVia = "start" /\ fbusOpen
    /\ BusQueued = BusCap
    /\ dPc = "send" /\ dCur # <<>>
    /\ dCur[1].id \in ConsumedIds
    /\ ~ENABLED RingSend

(***************************************************************************)
(* The host identifier: the HOST_MOUNT and HOSTNAME statics of             *)
(* vm_agent.rs and monitors/package_monitor.rs (the same code in both).    *)
(* A path is its components and whether it starts at the root.             *)
(***************************************************************************)
NoFile == <<"(no file)">>

\* the literal "no-hostname"
NoHostname == <<"no-hostname">>

NL == "\n"

\* `env::var("FACT_HOST_MOUNT").unwrap_or_default().into()`: the empty path
\* when the variable is unset, else its value
HostMounts ==
    { [abs |-> FALSE, comps |-> <<>>], [abs |-> TRUE, comps |-> <<"host">>] }

\* the array hostname_paths
hostname_paths ==
    << [abs |-> TRUE, comps |-> <<"etc", "hostname">>],
       [abs |-> TRUE, comps |-> <<"proc", "sys", "kernel", "hostname">>] >>

\* the path below a prefix: the components of p after those of base
PathBelow(base, p) ==
    [abs |-> base.abs \/ (base.comps = <<>> /\ p.abs), comps |-> base.comps \o p.comps]

\* PathBuf::join: a path that starts at the root replaces the base
PathJoin(base, p) ==
    IF p.abs THEN p ELSE [abs |-> base.abs, comps |-> base.comps \o p.comps]

\* the hostname files of the agent's own root and of the mounted host
FsFiles == { PathBelow(m, hostname_paths[i]) : m \in HostMounts, i \in 1..2 }

FileTexts == { <<"a">>, <<"b", NL>> }

IsSpace(c) == c \in {" ", NL}

\* str::trim
RECURSIVE TrimStart(_)
TrimStart(s) ==
    IF s # <<>> /\ IsSpace(Head(s)) THEN TrimStart(Tail(s)) ELSE s

RECURSIVE TrimEnd(_)
TrimEnd(s) ==
    IF s # <<>> /\ IsSpace(s[Len(s)]) THEN TrimEnd(SubSeq(s, 1, Len(s) - 1)) ELSE s

Trim(s) == TrimEnd(TrimStart(s))

\* Path::exists
Exists(fs, p) == p \in DOMAIN fs /\ fs[p] # NoFile

\* the initializer of HOSTNAME: the first of the joined paths that exists
\* is read and trimmed
HostnameInit(mount, fs) ==
    LET p1 == PathJoin(mount, hostname_paths[1])
        p2 == PathJoin(mount, hostname_paths[2])
    IN  IF Exists(fs, p1) THEN Trim(fs[p1])
        ELSE IF Exists(fs, p2) THEN Trim(fs[p2])
        ELSE NoHostname

\* the first access of HOSTNAME computes and caches the identifier
HostnameAccess ==
    /\ hostPc = "unread"
    /\ hostname' = HostnameInit(hostMount, hostFs)
    /\ hostPc' = "cached"
    /\ UNCHANGED <<hostMount, hostFs>>
    /\ UNCHANGED <<pkgVars, lsnVars, tickVars, colVars, drnVars, wchVars>>

HostInit ==
    /\ PkgParked
    /\ LsnParked
    /\ TickParked
    /\ ColParked
    /\ DrnParked
    /\ WchParked
    /\ hostMount \in HostMounts
    /\ hostFs \in [FsFiles -> FileTexts \cup {NoFile}]
    /\ hostPc = "unread"
    /\ hostname = <<>>

HostNext == HostnameAccess

HostSpec == HostInit /\ [][HostNext]_vars

\* the identifier read from the files below the prefix
IdentifierBelow(mount, fs) ==
    LET p1 == PathBelow(mount, hostname_paths[1])
        p2 == PathBelow(mount, hostname_paths[2])
    IN  IF Exists(fs, p1) THEN Trim(fs[p1])
        ELSE IF Exists(fs, p2) THEN Trim(fs[p2])
        ELSE NoHostname

\* C32: the identifier is the trimmed content of the first existing file of
\* HOST_MOUNT/etc/hostname and HOST_MOUNT/proc/sys/kernel/hostname, and
\* "no-hostname" when neither exists
C32_HostnameBelowHostMount ==
    hostPc = "cached" => hostname = IdentifierBelow(hostMount, hostFs)

(***************************************************************************)
(* The reports of the package-scanning senders.  A message is a record     *)
(* with the name of its protobuf type in `msg`.                            *)
(***************************************************************************)
\* values of the HOSTNAME static
HostIds == { NoHostname } \cup { Trim(t) : t \in FileTexts }

\* the single element of `distributions`: the DISTRIBUTION static
Distribution == "DISTRIBUTION"

HashPrefix == <<"/v4/vm/">>

\* VmAgent::send_grpc, lines 183-199: the report placed in the upsert
\* request
VmAgentGrpcReport(h, ps) ==
    [msg       |-> "IndexReport",
     vsock_cid |-> h,
     index_v4  |-> [hash_id       |-> HashPrefix \o h,
                    success       |-> TRUE,
                    packages      |-> ps,
                    distributions |-> <<Distribution>>]]

\* VmAgent::send_vsock, lines 219-234: the report that is serialized; the
\* hash_id is left at its default, the empty string
VmAgentVsockReport(h, ps) ==
    [msg       |-> "IndexReport",
     vsock_cid |-> h,
     index_v4  |-> [hash_id       |-> <<>>,
                    success       |-> TRUE,
                    packages      |-> ps,
                    distributions |-> <<Distribution>>]]

\* PackageMonitor::send_vsock, lines 167-177: the message that is serialized
PackageMonitorVsockMessage(h, ps) ==
    [msg  |-> "VirtualMachine",
     id   |-> h,
     scan |-> [components |-> ps]]

\* the message whose encode_to_vec is handed to VsockClient::send_data
VsockMessage(a, h, ps) ==
    IF a = "VmAgent" THEN VmAgentVsockReport(h, ps)
    ELSE PackageMonitorVsockMessage(h, ps)

\* SensorRelay::forward_vm_message, lines 133-140: the type the payload is
\* decoded as (the field of the upsert request fixes it)
RelayDecodeType == "IndexReport"

SentOnVsock == \E i \in 1..Len(net) : net[i] = "vsock_send"
SentOnRpc == \E i \in 1..Len(net) : net[i] = "rpc_upsert"

\* C33: for the scan result of a cycle in which the VM agent has sent, the
\* report it serializes for the transport equals, field for field, the
\* report it places in the upsert request
C33_SameReportOnBothPaths ==
    (agent = "VmAgent" /\ (SentOnVsock \/ SentOnRpc)) =>
        \A h \in HostIds : VmAgentVsockReport(h, pkgs) = VmAgentGrpcReport(h, pkgs)

\* C34: every payload a package-scanning sender has written to the
\* transport is a serialized message of the type the relay decodes
C34_PayloadIsIndexReport ==
    SentOnVsock => \A h \in HostIds : VsockMessage(agent, h, pkgs).msg = RelayDecodeType

(***************************************************************************)
(* One guest and its handler, with whole reads and writes, frames of very  *)
(* different lengths, and a sensor relay that has failed to connect        *)
(* (lib.rs lines 156-167: the accept loop is started all the same).  The   *)
(* connected relay is the case of FramingSpec.  The messages stay in the   *)
(* channel, whose capacity they do not reach.                              *)
(***************************************************************************)
HandlerInit ==
    /\ PkgParked
    /\ TickParked
    /\ DrnParked
    /\ WchParked
    /\ HostParked
    /\ ColParked
    /\ lcfg = [mode |-> "listener", enable_vm_agent |-> FALSE, enable_vsock_server |-> FALSE]
    /\ wire = [chunked |-> FALSE, frames |-> MaxFrames + 1, long |-> TRUE]
    /\ runPc = "wait"
    /\ startErr = "none"
    /\ sigPc = "waiting"
    /\ interrupted = FALSE
    /\ rx = [r \in {"watcher", "relay", "serve", "run"} |-> "empty"]
    /\ bound = TRUE
    /\ spawned = [t \in {"agent", "watcher", "bind", "relay", "serve"} |->
                    IF t = "agent" THEN 0 ELSE 1]
    /\ watcherPc = "loop"
    /\ relayClient = FALSE
    /\ relayPc = "failed"
    /\ relayChan = <<>>
    /\ relayLog = <<>>
    /\ upserts = <<>>
    /\ servePc = "select"
    /\ serveChan = <<>>
    /\ drained = 0
    /\ conn = [c \in Conns |-> ConnInit]

HandlerNext ==
    \/ ServeEnterAccept
    \/ \E c \in FramingConns : ServeAcceptReturn(c)
    \/ \E c \in FramingConns : GuestConnect(c)
    \/ \E c \in FramingConns : GuestSend(c)
    \/ \E c \in FramingConns : GuestWrite(c)
    \/ \E c \in FramingConns : GuestReadAck(c)
    \/ \E c \in FramingConns : HandlerRead(c)
    \/ \E c \in FramingConns : HandlerWriteAck(c)
    \/ \E c \in FramingConns : HandlerForward(c)

HandlerSpec == HandlerInit /\ [][HandlerNext]_vars

\* C35: on one connection the acknowledgment of a frame is written in full
\* before its message is sent on the channel, exactly one message is sent
\* per step and its acknowledgment is the last one written; a header is read
\* only when the message of every acknowledged frame has been sent; and an
\* acknowledgment that is due is written whatever the state of the relay
C35_AckBeforeEnqueue ==
    [][\A c \in Conns :
         LET k == conn[c]
             k2 == conn'[c]
         IN  /\ k2.fwdLog # k.fwdLog =>
                   /\ k.hPc = "fwd"
                   /\ Len(k2.fwdLog) = Len(k.fwdLog) + 1
                   /\ Len(k.ackLog) = HeaderLen * Len(k2.fwdLog)
                   /\ k2.ackLog = k.ackLog
                   /\ Len(serveChan') = Len(serveChan) + 1
             /\ k2.ackLog # k.ackLog =>
                   /\ k2.fwdLog = k.fwdLog
                   /\ Len(k2.ackLog) <= HeaderLen * (Len(k.fwdLog) + 1)
             /\ (k2.hdr # k.hdr /\ k2.hdr # <<>>) =>
                   /\ k.hPc = "hdr"
                   /\ HeaderLen * Len(k.fwdLog) = Len(k.ackLog)
             /\ (k.hPc = "ack" /\ ~k.fault) => ENABLED HandlerWriteAck(c)
    ]_vars

\* the relay never connected, and the guest's send_data returned Ok on the
\* zero acknowledgment of a frame that the sensor was not sent
C35_Witness ==
    \E c \in Conns :
        /\ ~relayClient
        /\ relayPc = "failed"
        /\ conn[c].cOk >= 1
        /\ Len(conn[c].fwdLog) >= 1
        /\ upserts = <<>>

\* C36: the i-th message the handler has sent carries exactly the payload
\* of the i-th frame, and the messages still in the channel are the last
\* ones sent, in the order of the frames
C36_MessageIsFramePayload ==
    \A c \in FramingConns :
        LET k == conn[c]
            sent == Len(k.fwdLog)
            held == Len(serveChan)
        IN  /\ sent <= Len(k.cCalls)
            /\ \A i \in 1..sent : k.fwdLog[i] = k.cCalls[i]
            /\ held <= sent
            /\ \A j \in 1..held : serveChan[j].data = k.cCalls[sent - held + j]
            /\ drained = sent - held

\* a frame that grew the buffer, then an empty frame, then a one-byte frame
\* were all sent on
C36_Witness ==
    \E c \in FramingConns :
        /\ Len(conn[c].fwdLog) = 3
        /\ conn[c].fwdLog[1] = LongPayload
        /\ conn[c].fwdLog[2] = <<>>
        /\ Len(conn[c].fwdLog[3]) = 1
        /\ conn[c].bufCap = BufInit + 1
        /\ Len(conn[c].buf) = BufInit + 1

(***************************************************************************)
(* The sender of the sensor relay's channel.                               *)
(***************************************************************************)
\* C37: wherever a sensor relay was started, its channel has a live sender
\* until the shutdown is signalled, and a relay loop that has ended was
\* ended at the shutdown
C37_RelaySenderLivesUntilShutdown ==
    /\ (relayPc # "none" /\ sigPc # "done") => ~VmMsgTxDropped
    /\ relayPc = "stopped" => sigPc = "done"

(***************************************************************************)
(* The components hybrid mode starts.                                      *)
(***************************************************************************)
ListenerStack == {"watcher", "bind", "relay", "serve"}

\* 1 if the flag is set or neither flag is set, else 0
OnceIf(flag, c) ==
    IF flag \/ (~c.enable_vm_agent /\ ~c.enable_vsock_server) THEN 1 ELSE 0

\* C38: in hybrid mode no component is started twice; and when the startup
\* has gone through, the VM agent was started once if enable_vm_agent is
\* set or neither flag is, else not at all, and each part of the listener
\* stack once if enable_vsock_server is set or neither flag is, else not at
\* all
C38_HybridStartsEachOnce ==
    lcfg.mode = "hybrid" =>
        /\ \A t \in DOMAIN spawned : spawned[t] <= 1
        /\ runPc \in {"subscribe", "wait", "returned_ok"} =>
              /\ spawned["agent"] = OnceIf(lcfg.enable_vm_agent, lcfg)
              /\ \A t \in ListenerStack :
                    spawned[t] = OnceIf(lcfg.enable_vsock_server, lcfg)

\* hybrid mode with both flags set has started everything, once
C38_Witness ==
    /\ lcfg = [mode |-> "hybrid", enable_vm_agent |-> TRUE, enable_vsock_server |-> TRUE]
    /\ runPc = "wait"
    /\ \A t \in DOMAIN spawned : spawned[t] = 1
    /\ bound

(***************************************************************************)
(* FileMonitor::start: its errors and its call on a running collector.     *)
(***************************************************************************)
\* the step is the return of a start call on the file collector with res
FmStartReturns(res) ==
    /\ Len(monLog') = Len(monLog) + 1
    /\ monLog'[Len(monLog')] = [mon |-> "file_monitor", op |-> "start", res |-> res]

\* C39: a start of the file collector that returns an error leaves the
\* collector not running and has spawned no drain task; while a start is
\* setting the collector up the flag is false; and a start on a running
\* collector returns Ok at once, with nothing loaded and no task spawned
C39_StartErrorAndRestart ==
    [][/\ FmStartReturns("err") =>
             /\ ~fm.running /\ ~fm'.running
             /\ fm'.tasks = fm.tasks
             /\ fm.pc \in {"load", "program"} /\ fm'.pc = "idle"
       /\ (fm.via = "start" /\ fm.pc \in {"load", "program"}) => ~fm.running
       /\ (fm.running /\ fm.pc = "idle" /\ fm'.pc \in {"load", "program"}) => FALSE
       /\ (fm.running /\ FmStartReturns("ok")) =>
             /\ fm' = fm
             /\ fm.pc = "idle"
       /\ fm'.tasks # fm.tasks =>
             /\ FmStartReturns("ok")
             /\ ~fm.running /\ fm'.running
             /\ fm'.tasks = fm.tasks + 1
    ]_vars

\* a start has failed, a later one has succeeded, and a third call found the
\* collector running: one drain task exists
C39_Witness ==
    /\ Len(monLog) = 3
    /\ monLog[1] = [mon |-> "file_monitor", op |-> "start", res |-> "err"]
    /\ monLog[2] = [mon |-> "file_monitor", op |-> "start", res |-> "ok"]
    /\ monLog[3] = [mon |-> "file_monitor", op |-> "start", res |-> "ok"]
    /\ fm.running
    /\ fm.tasks = 1

(***************************************************************************)
(* VmWatcher::handle_vm_event (vm_watcher.rs lines 64-128).  A JSON value  *)
(* is absent, a string, or of another type; strings are sequences of       *)
(* characters.                                                             *)
(***************************************************************************)
MaxEvents == 3      \* handle_vm_event calls of one run

JAbsent == [kind |-> "absent", s |-> <<>>]
JNumber == [kind |-> "number", s |-> <<>>]
JStr(s) == [kind |-> "string", s |-> s]

\* `.and_then(|v| v.as_str())`: the string, if the value is one
IsStr(v) == v.kind = "string"

\* the objects of the events: with or without metadata; name, namespace and
\* uid absent, of a wrong type, or strings
VmDatas ==
    [ metadata  : BOOLEAN,
      name      : {JAbsent, JNumber, JStr(<<"a">>)},
      namespace : {JAbsent, JStr(<<"n">>), JStr(<<"m">>)},
      uid       : {JAbsent, JStr(<<"u">>), JStr(<<"v">>)} ]

EventTypes == {"ADDED", "MODIFIED", "DELETED", "BOOKMARK"}

\* Value::get on the metadata object: nothing is found without metadata
MetaGet(d, f) == IF d.metadata THEN d[f] ELSE JAbsent

\* a variant of the key that leaves the namespace out
VmKeyNameOnly(namespace, name) == name

\* lines 68 and 87: format!("{}/{}", namespace, name)
VmKey(namespace, name) == namespace \o <<"/">> \o name

\* parse_vm_object, lines 103-128: an error when metadata, name, namespace or
\* uid is missing or not a string.  (The context id, lines 119-120, plays no
\* part in the key.)
ParseVmObject(d) ==
    IF d.metadata /\ IsStr(d.name) /\ IsStr(d.namespace) /\ IsStr(d.uid)
    THEN [ok |-> TRUE,
          vm |-> [name |-> d.name.s, namespace |-> d.namespace.s, uid |-> d.uid.s]]
    ELSE [ok |-> FALSE, vm |-> [name |-> <<>>, namespace |-> <<>>, uid |-> <<>>]]

\* HashMap::insert and HashMap::remove
MapInsert(m, k, v) == [x \in DOMAIN m \cup {k} |-> IF x = k THEN v ELSE m[x]]
MapRemove(m, k) == [x \in DOMAIN m \ {k} |-> m[x]]

\* the table after handle_vm_event(t, d), lines 65-97
VmsAfter(m, t, d) ==
    IF t \in {"ADDED", "MODIFIED"}
    THEN LET r == ParseVmObject(d)
         IN  IF r.ok THEN MapInsert(m, VmKey(r.vm.namespace, r.vm.name), r.vm) ELSE m
    ELSE IF t = "DELETED"
    THEN IF IsStr(MetaGet(d, "name")) /\ IsStr(MetaGet(d, "namespace"))
         THEN MapRemove(m, VmKey(d.namespace.s, d.name.s))
         ELSE m
    ELSE m

\* the keys an event can name: namespace, "/", name
EventKeys ==
    { d.namespace.s \o <<"/">> \o d.name.s :
        d \in { x \in VmDatas : IsStr(x.name) /\ IsStr(x.namespace) } }

\* an event that is well formed for its type: ADDED and MODIFIED need name,
\* namespace and uid, DELETED needs name and namespace
WellFormed(t, d) ==
    /\ d.metadata /\ IsStr(d.name) /\ IsStr(d.namespace)
    /\ \/ t \in {"ADDED", "MODIFIED"} /\ IsStr(d.uid)
       \/ t = "DELETED"

\* one call of handle_vm_event: the table is updated, and the VM of an ADDED
\* or MODIFIED event is sent on vm_tx (lines 74-78; the send waits while the
\* channel is full and fails, with a warning, when the receiver is gone)
HandleVmEvent ==
    /\ vmCalls < MaxEvents
    /\ \E t \in EventTypes, d \in VmDatas :
          LET r == ParseVmObject(d)
              sends == t \in {"ADDED", "MODIFIED"} /\ r.ok
          IN  /\ sends /\ vmRxOpen => Len(vmChan) < ChanCap
              /\ vms' = VmsAfter(vms, t, d)
              /\ vmChan' = IF sends /\ vmRxOpen THEN Append(vmChan, r.vm) ELSE vmChan
              /\ vmLast' = IF WellFormed(t, d)
                           THEN [vmLast EXCEPT ![d.namespace.s \o <<"/">> \o d.name.s] = t]
                           ELSE vmLast
    /\ vmCalls' = vmCalls + 1
    /\ UNCHANGED vmRxOpen
    /\ UNCHANGED <<pkgVars, lsnVars, tickVars, colVars, drnVars, hostVars>>

\* VmWatcher::new, lines 24-33; the receiver is the caller's
WatchInit ==
    /\ PkgParked
    /\ LsnParked
    /\ TickParked
    /\ ColParked
    /\ DrnParked
    /\ HostParked
    /\ vms = <<>>
    /\ vmChan = <<>>
    /\ vmRxOpen \in BOOLEAN
    /\ vmLast = [k \in EventKeys |-> "none"]
    /\ vmCalls = 0

WatchNext == HandleVmEvent

WatchSpec == WatchInit /\ [][WatchNext]_vars

\* vm_count, lines 178-180
vm_count == Cardinality(DOMAIN vms)

\* the keys whose last well-formed event was ADDED or MODIFIED
LiveKeys == { k \in EventKeys : vmLast[k] \in {"ADDED", "MODIFIED"} }

\* C40: after any sequence of handle_vm_event calls the tracked keys are the
\* keys whose last well-formed event was ADDED or MODIFIED, every tracked VM
\* is stored under the key of its namespace and name, and vm_count is the
\* number of those keys (events that are not well formed, and events of an
\* unknown type, do not enter into it)
C40_TrackedSetIsLiveKeys ==
    /\ DOMAIN vms = LiveKeys
    /\ vm_count = Cardinality(LiveKeys)
    /\ \A k \in DOMAIN vms : k = vms[k].namespace \o <<"/">> \o vms[k].name

\* two VMs were added and one of them was deleted again
C40_Witness ==
    /\ vmCalls = 3
    /\ vm_count = 1
    /\ \E k \in EventKeys : vmLast[k] = "DELETED"
    /\ \E k \in EventKeys : vmLast[k] \in {"ADDED", "MODIFIED"}

====
